---- MODULE Spec2Model ----
(***************************************************************************)
(* Ad-record normalization (src/app.py): the snapshot unwrapper, the field *)
(* normalizer and the media resolvers, applied to one raw item returned by *)
(* the ad-search API.                                                      *)
(*                                                                         *)
(* Python values are tagged records, so that values of different Python    *)
(* types can be compared:                                                  *)
(*   None  [t |-> "null"]          bool  [t |-> "bool", b |-> TRUE]       *)
(*   int   [t |-> "int", n |-> 3]  str   [t |-> "str",  s |-> "abc"]      *)
(*   list  [t |-> "list", q |-> <<v1, v2>>]                               *)
(*   dict  [t |-> "dict", f |-> [key |-> value]]  (f a function on keys)  *)
(* An exception that would leave a Python expression is the value Raise.   *)
(***************************************************************************)
EXTENDS Integers, Sequences, FiniteSets, TLC

\* item:   the raw item fetched from the dataset
\* locals: snap, card0 and pgcat0 of the running extract_selected_fields, and
\*         image_url / video_url as found in snapshot.images / snapshot.videos
\* record: the value extract_selected_fields returned (Raise if it raised)
\* again:  the value of extract_selected_fields applied to record
\* pc:     "fetched", then "extracted" or "raised", then "renormalized" or
\*         "reraised"; "date_given", "date_checked" for the date filter;
\*         "calling", "looping", "returned" for run_facebook_ads_scrape
\* date_str, verdict: the text given to is_date_in_range and what it returned
\* range:  [start, end], the caller's date range (None where not supplied)
\* items, idx, processed_items: the fetched raw items, the position of the
\*         loop over them and the records kept so far
VARIABLES item, locals, record, again, pc, date_str, range, verdict,
          items, idx, processed_items

\* now:       the clock, in whole seconds, as int(time.time()) reads it
\* tables:    the ads collections of saved_ads.db: name -> [rows, seq], the
\*            rows of the table and its AUTOINCREMENT counter
\* ad_tables: the rows of the registry table ad_tables
\* store_ret: the last storage call, [op, value]: its name and what it returned
\* calls:     the number of storage calls made so far
VARIABLES now, tables, ad_tables, store_ret, calls

\* uploads:     the table uploads, [rows, seq]: its rows and its
\*              AUTOINCREMENT counter
\* upload_call: the arguments of the last save_uploaded_image call
\* upload_id:   what that call returned
VARIABLES uploads, upload_call, upload_id

\* base_prompt_json, variant_json: the arguments given to
\*              generate_single_variant_image and build_prompt_text
\* prompt_text:  the prompt generate_single_variant_image sent to the image model
\* preview_text: what build_prompt_text returned
VARIABLES base_prompt_json, variant_json, prompt_text, preview_text

\* text:   the argument of _extract_json_blocks
\* parsed: the list it returned
VARIABLES text, parsed

\* run:      the status of the assistant run as last retrieved
\* polls:    the number of times analyze_images retrieved it
\* msgs:     the messages of the thread, as messages.list returns them
\* analysis: how analyze_images ended: [kind |-> "return", value] or
\*           [kind |-> "raise", message]
VARIABLES run, polls, msgs, analysis

\* save_modal_ad, pending_save_ads: the entries of st.session_state
\* rendered: the part of the page the last run of main rendered
\* event:    the widget event the last run of main handled
\* runs:     the number of runs of main so far
VARIABLES save_modal_ad, pending_save_ads, rendered, event, runs

vars == <<item, locals, record, again, pc, date_str, range, verdict,
          items, idx, processed_items,
          now, tables, ad_tables, store_ret, calls,
          uploads, upload_call, upload_id,
          base_prompt_json, variant_json, prompt_text, preview_text,
          text, parsed,
          run, polls, msgs, analysis,
          save_modal_ad, pending_save_ads, rendered, event, runs>>

storeVars == <<now, tables, ad_tables, store_ret, calls>>

uploadVars == <<uploads, upload_call, upload_id>>

promptVars == <<base_prompt_json, variant_json, prompt_text, preview_text>>

blocksVars == <<text, parsed>>

analyzeVars == <<run, polls, msgs, analysis>>

\* the variables of the assistant engine
engineVars == <<promptVars, blocksVars, analyzeVars>>

uiVars == <<save_modal_ad, pending_save_ads, rendered, event, runs>>

\* the variables of the storage layer, the engine and the page
laterVars == <<storeVars, uploadVars, engineVars, uiVars>>

\* the variables of normalization, date filter and scrape, but for pc
earlierVars == <<item, locals, record, again, date_str, range, verdict,
                 items, idx, processed_items>>

extractVars == <<item, locals, record, again>>

dateVars == <<date_str, verdict>>

scrapeVars == <<items, idx, processed_items>>

(* ------------------------------ bounds --------------------------------- *)

\* longest list generated for snapshot.images / videos / cards /
\* page_categories and item.categories
MaxListLen == 2

\* most raw items one search returns
MaxItems == 2

\* most storage calls in one run
MaxCalls == 3

\* most seconds that pass between the storage calls of one run
MaxTicks == 1

\* most rows the uploads table is ever given in one run
MaxUploads == 3

\* most segments (fenced blocks, stray lines) of an assistant text
MaxSegments == 3

\* most runs of main in one session
MaxRuns == 4

\* most times analyze_images retrieves the run before it leaves the loop
MaxPolls == 2

\* most messages in the thread of an analysis
MaxMessages == 3

(* --------------------------- Python values ----------------------------- *)

None == [t |-> "null"]

PyBool(b) == [t |-> "bool", b |-> b]

PyInt(n) == [t |-> "int", n |-> n]

PyStr(s) == [t |-> "str", s |-> s]

PyList(q) == [t |-> "list", q |-> q]

PyDict(f) == [t |-> "dict", f |-> f]

EmptyDict == PyDict(<<>>)

Raise == [t |-> "raise"]

IsDict(v) == v.t = "dict"

IsList(v) == v.t = "list"

IsStr(v) == v.t = "str"

IsRaise(v) == v.t = "raise"

\* bool(v): None, False, 0, "", [] and {} are falsy, everything else truthy
Truthy(v) ==
    CASE v.t = "null" -> FALSE
      [] v.t = "bool" -> v.b
      [] v.t = "int"  -> v.n # 0
      [] v.t = "str"  -> v.s # ""
      [] v.t = "list" -> Len(v.q) > 0
      [] v.t = "dict" -> DOMAIN v.f # {}
      [] v.t = "date" -> TRUE
      [] OTHER        -> FALSE

\* d.get(k): AttributeError when d is not a dict, None when k is absent
Get(d, k) ==
    IF ~IsDict(d) THEN Raise
    ELSE IF k \in DOMAIN d.f THEN d.f[k] ELSE None

\* d[k]: KeyError when k is absent
Index(d, k) ==
    IF ~IsDict(d) THEN Raise
    ELSE IF k \in DOMAIN d.f THEN d.f[k] ELSE Raise

\* x.get(k) if isinstance(x, dict) else None
GetIfDict(x, k) == IF IsDict(x) THEN Get(x, k) ELSE None

\* a or b, where evaluating a may already have raised
Or(a, b) == IF IsRaise(a) THEN Raise ELSE IF Truthy(a) THEN a ELSE b

(* ------------------------------ json.loads ----------------------------- *)

\* The lexical tokens of the JSON texts that occur as string values:
\* punctuation [k |-> "p"], string literal "s", number "n", bare word "w".
TokP(c) == [k |-> "p", c |-> c]

TokS(s) == [k |-> "s", s |-> s]

TokN(n) == [k |-> "n", n |-> n]

TokW(w) == [k |-> "w", w |-> w]

JsonTokens(s) ==
    CASE s = "{}" -> <<TokP("{"), TokP("}")>>
      [] s = "[]" -> <<TokP("["), TokP("]")>>
      [] s = "null" -> <<TokW("null")>>
      [] s = "7" -> <<TokN(7)>>
      [] s = "\"A\"" -> <<TokS("A")>>
      [] s = "[{\"link_url\": \"L\"}]" ->
            <<TokP("["), TokP("{"), TokS("link_url"), TokP(":"), TokS("L"), TokP("}"), TokP("]")>>
      [] s = "{\"link_url\": \"L\"}" ->
            <<TokP("{"), TokS("link_url"), TokP(":"), TokS("L"), TokP("}")>>
      [] s = "{\"link_url\": \"L\"" ->
            <<TokP("{"), TokS("link_url"), TokP(":"), TokS("L")>>
      [] s = "{\"link_url\": \"L\"}}" ->
            <<TokP("{"), TokS("link_url"), TokP(":"), TokS("L"), TokP("}"), TokP("}")>>
      [] s = "{\"cards\": [{\"cta_text\": \"C\", \"link_url\": \"K\"}], \"cta_text\": \"S\", \"caption\": null}" ->
            <<TokP("{"), TokS("cards"), TokP(":"), TokP("["), TokP("{"), TokS("cta_text"), TokP(":"),
              TokS("C"), TokP(","), TokS("link_url"), TokP(":"), TokS("K"), TokP("}"), TokP("]"),
              TokP(","), TokS("cta_text"), TokP(":"), TokS("S"), TokP(","), TokS("caption"),
              TokP(":"), TokW("null"), TokP("}")>>
      [] s = "{\"images\": {\"url\": \"U\"}, \"videos\": [1, {\"src\": \"V\"}], \"page_categories\": [{\"page_entity_type\": \"E\"}]}" ->
            <<TokP("{"), TokS("images"), TokP(":"), TokP("{"), TokS("url"), TokP(":"), TokS("U"),
              TokP("}"), TokP(","), TokS("videos"), TokP(":"), TokP("["), TokN(1), TokP(","), TokP("{"),
              TokS("src"), TokP(":"), TokS("V"), TokP("}"), TokP("]"), TokP(","),
              TokS("page_categories"), TokP(":"), TokP("["), TokP("{"),
              TokS("page_entity_type"), TokP(":"), TokS("E"), TokP("}"), TokP("]"), TokP("}")>>
      [] s = "{\"images\": true, \"cards\": \"x\", \"link_url\": false}" ->
            <<TokP("{"), TokS("images"), TokP(":"), TokW("true"), TokP(","), TokS("cards"), TokP(":"),
              TokS("x"), TokP(","), TokS("link_url"), TokP(":"), TokW("false"), TokP("}")>>
      [] s = "{'link_url': 'L'}" ->
            <<TokP("{"), TokW("'link_url'"), TokP(":"), TokW("'L'"), TokP("}")>>
      [] OTHER -> IF s = "" THEN <<>> ELSE <<TokW(s)>>

IsP(toks, i, c) == i <= Len(toks) /\ toks[i].k = "p" /\ toks[i].c = c

ParseFail == [ok |-> FALSE, v |-> None, i |-> 0]

ParseOk(v, i) == [ok |-> TRUE, v |-> v, i |-> i]

RECURSIVE ParseValue(_, _)
RECURSIVE ParseMembers(_, _, _)
RECURSIVE ParseElements(_, _, _)

\* members of an object after "{" or ",": string ":" value, then "," or "}";
\* a repeated key keeps its last value
ParseMembers(toks, i, acc) ==
    IF ~(i <= Len(toks) /\ toks[i].k = "s" /\ IsP(toks, i + 1, ":"))
    THEN ParseFail
    ELSE LET r == ParseValue(toks, i + 2)
             acc2 == (toks[i].s :> r.v) @@ acc
         IN  IF ~r.ok THEN ParseFail
             ELSE IF IsP(toks, r.i, "}") THEN ParseOk(PyDict(acc2), r.i + 1)
             ELSE IF IsP(toks, r.i, ",") THEN ParseMembers(toks, r.i + 1, acc2)
             ELSE ParseFail

\* elements of an array after "[" or ",": value, then "," or "]"
ParseElements(toks, i, acc) ==
    LET r == ParseValue(toks, i)
    IN  IF ~r.ok THEN ParseFail
        ELSE IF IsP(toks, r.i, "]") THEN ParseOk(PyList(Append(acc, r.v)), r.i + 1)
        ELSE IF IsP(toks, r.i, ",") THEN ParseElements(toks, r.i + 1, Append(acc, r.v))
        ELSE ParseFail

ParseValue(toks, i) ==
    IF i > Len(toks) THEN ParseFail
    ELSE LET tk == toks[i]
         IN  CASE tk.k = "s" -> ParseOk(PyStr(tk.s), i + 1)
               [] tk.k = "n" -> ParseOk(PyInt(tk.n), i + 1)
               [] tk.k = "w" ->
                    IF tk.w = "null" THEN ParseOk(None, i + 1)
                    ELSE IF tk.w = "true" THEN ParseOk(PyBool(TRUE), i + 1)
                    ELSE IF tk.w = "false" THEN ParseOk(PyBool(FALSE), i + 1)
                    ELSE ParseFail
               [] tk.k = "p" ->
                    IF tk.c = "{"
                    THEN IF IsP(toks, i + 1, "}") THEN ParseOk(EmptyDict, i + 2)
                         ELSE ParseMembers(toks, i + 1, <<>>)
                    ELSE IF tk.c = "["
                    THEN IF IsP(toks, i + 1, "]") THEN ParseOk(PyList(<<>>), i + 2)
                         ELSE ParseElements(toks, i + 1, <<>>)
                    ELSE ParseFail

\* json.loads(s): the value of the whole text, Raise (JSONDecodeError) when
\* the text is not one JSON value
json_loads(s) ==
    LET toks == JsonTokens(s)
        r == ParseValue(toks, 1)
    IN  IF r.ok /\ r.i = Len(toks) + 1 THEN r.v ELSE Raise

(* ------------------------- snapshot unwrapper -------------------------- *)

\* the unwrapper without its final isinstance(snap, dict) test
get_snapshot_dict_unchecked(it) ==
    LET snap0 == Get(it, "snapshot")
    IN  IF IsStr(snap0)
        THEN LET p == json_loads(snap0.s)
             IN  IF IsRaise(p) THEN EmptyDict ELSE p
        ELSE snap0

\* an unwrapper that reads item["snapshot"]: KeyError when the key is absent
get_snapshot_dict_required(it) ==
    LET snap0 == Index(it, "snapshot")
        snap1 == IF IsStr(snap0)
                 THEN LET p == json_loads(snap0.s)
                      IN  IF IsRaise(p) THEN EmptyDict ELSE p
                 ELSE snap0
    IN  IF IsRaise(snap0) THEN Raise
        ELSE IF ~IsDict(snap1) THEN EmptyDict ELSE snap1

_get_snapshot_dict(it) ==
    LET snap0 == Get(it, "snapshot")
        snap1 == IF IsStr(snap0)
                 THEN LET p == json_loads(snap0.s)
                      IN  IF IsRaise(p) THEN EmptyDict ELSE p
                 ELSE snap0
    IN  IF ~IsDict(snap1) THEN EmptyDict ELSE snap1

(* ---------------------------- media resolver --------------------------- *)

\* for k in keys: v = d.get(k); if v: <hit>  -- the first truthy d.get(k),
\* None when no key of the tuple gives one
RECURSIVE FirstKeyHit(_, _, _)
FirstKeyHit(d, keys, j) ==
    IF j > Len(keys) THEN None
    ELSE LET v == Get(d, keys[j])
         IN  IF IsRaise(v) THEN Raise
             ELSE IF Truthy(v) THEN v
             ELSE FirstKeyHit(d, keys, j + 1)

\* a coercion that forgets to wrap a lone mapping
CoerceToListNoWrap(m) == IF IsList(m) THEN m.q ELSE <<>>

\* isinstance(m, dict) -> [m]; not a list -> []
CoerceToList(m) == IF IsDict(m) THEN <<m>> ELSE IF IsList(m) THEN m.q ELSE <<>>

ImageKeys == <<"original_image_url", "original_picture_url", "original_picture", "url", "src">>

\* the image loop without its isinstance(im, dict) test
RECURSIVE ImageScanUnchecked(_, _)
ImageScanUnchecked(imgs, i) ==
    IF i > Len(imgs) THEN None
    ELSE LET v == FirstKeyHit(imgs[i], ImageKeys, 1)
         IN  IF IsRaise(v) \/ Truthy(v) THEN v ELSE ImageScanUnchecked(imgs, i + 1)

\* a key-major image search: each key is tried on every element in turn
ImageScanKeyMajor(imgs, i) ==
    LET hits == {h \in (1..Len(ImageKeys)) \X (i..Len(imgs)) :
                    IsDict(imgs[h[2]]) /\ Truthy(Get(imgs[h[2]], ImageKeys[h[1]]))}
        first == CHOOSE h \in hits :
                    \A g \in hits : h[1] < g[1] \/ (h[1] = g[1] /\ h[2] <= g[2])
    IN  IF hits = {} THEN None ELSE Get(imgs[first[2]], ImageKeys[first[1]])

\* for im in imgs: skip non-dicts, return the first truthy candidate
RECURSIVE ImageScan(_, _)
ImageScan(imgs, i) ==
    IF i > Len(imgs) THEN None
    ELSE IF ~IsDict(imgs[i]) THEN ImageScan(imgs, i + 1)
    ELSE LET v == FirstKeyHit(imgs[i], ImageKeys, 1)
         IN  IF IsRaise(v) \/ Truthy(v) THEN v ELSE ImageScan(imgs, i + 1)

get_original_image_url(it) ==
    LET snap == _get_snapshot_dict(it)
    IN  ImageScan(CoerceToList(Get(snap, "images")), 1)

\* top-level image keys that also hold the record's own image key
TopImageKeysWithOriginal ==
    <<"imageUrl", "image_url", "thumbnailUrl", "thumbnail_url", "image", "original_image_url">>

TopImageKeys == <<"imageUrl", "image_url", "thumbnailUrl", "thumbnail_url", "image">>

\* for k in img_keys: if item.get(k): image_url = item[k]; break
RECURSIVE TopImageScan(_, _, _)
TopImageScan(it, j, image_url) ==
    IF j > Len(TopImageKeys) THEN image_url
    ELSE LET v == Get(it, TopImageKeys[j])
         IN  IF IsRaise(v) THEN Raise
             ELSE IF Truthy(v) THEN Index(it, TopImageKeys[j])
             ELSE TopImageScan(it, j + 1, image_url)

\* an image resolver that prefers the item's own image keys
ImageUrlTopFirst(it) ==
    LET top == TopImageScan(it, 1, None)
    IN  IF Truthy(top) THEN top ELSE get_original_image_url(it)

\* if not image_url: the item's own image keys are tried
ImageFallback(it, image_url) ==
    IF IsRaise(image_url) THEN Raise
    ELSE IF ~Truthy(image_url) THEN TopImageScan(it, 1, image_url)
    ELSE image_url

\* image_url = get_original_image_url(item), evaluated once, then the fallback
ImageUrl(it) ==
    CHOOSE r \in {ImageFallback(it, image_url) :
                     image_url \in {get_original_image_url(it)}} : TRUE

VideoKeys == <<"video_hd_url", "video_sd_url", "video_preview_url", "url", "src">>

\* the video loop without its isinstance(vid, dict) test
RECURSIVE VideoScanUnchecked(_, _)
VideoScanUnchecked(videos, i) ==
    IF i > Len(videos) THEN None
    ELSE LET v == FirstKeyHit(videos[i], VideoKeys, 1)
         IN  IF IsRaise(v) \/ Truthy(v) THEN v ELSE VideoScanUnchecked(videos, i + 1)

\* the video loop without its outer break: a later element's hit overwrites
RECURSIVE VideoScanLastHit(_, _)
VideoScanLastHit(videos, i) ==
    IF i > Len(videos) THEN None
    ELSE LET rest == VideoScanLastHit(videos, i + 1)
             v == IF IsDict(videos[i]) THEN FirstKeyHit(videos[i], VideoKeys, 1) ELSE None
         IN  IF Truthy(rest) THEN rest ELSE v

\* for vid in videos: skip non-dicts; the first truthy candidate ends both loops
RECURSIVE VideoScan(_, _)
VideoScan(videos, i) ==
    IF i > Len(videos) THEN None
    ELSE IF ~IsDict(videos[i]) THEN VideoScan(videos, i + 1)
    ELSE LET v == FirstKeyHit(videos[i], VideoKeys, 1)
         IN  IF IsRaise(v) \/ Truthy(v) THEN v ELSE VideoScan(videos, i + 1)

TopVideoKeys == <<"videoUrl", "video_url", "video", "video_hd_url", "video_sd_url">>

\* a fallback that tries every key on the item before any on the snapshot
TopVideoScanItemFirst(it, snap, j, video_url) ==
    LET a == FirstKeyHit(it, TopVideoKeys, j)
        b == FirstKeyHit(snap, TopVideoKeys, j)
    IN  IF Truthy(a) THEN a ELSE IF Truthy(b) THEN b ELSE video_url

\* for k in vid_keys: item.get(k) first, then snap.get(k)
RECURSIVE TopVideoScan(_, _, _, _)
TopVideoScan(it, snap, j, video_url) ==
    IF j > Len(TopVideoKeys) THEN video_url
    ELSE LET a == Get(it, TopVideoKeys[j])
             b == Get(snap, TopVideoKeys[j])
         IN  IF IsRaise(a) THEN Raise
             ELSE IF Truthy(a) THEN Index(it, TopVideoKeys[j])
             ELSE IF IsRaise(b) THEN Raise
             ELSE IF Truthy(b) THEN Index(snap, TopVideoKeys[j])
             ELSE TopVideoScan(it, snap, j + 1, video_url)

VideoUrl(it, snap) ==
    LET video_url == VideoScan(CoerceToList(Get(snap, "videos")), 1)
    IN  IF IsRaise(video_url) THEN Raise
        ELSE IF ~Truthy(video_url) THEN TopVideoScan(it, snap, 1, video_url)
        ELSE video_url

(* --------------------------- field normalizer -------------------------- *)

\* a first card that is the first mapping anywhere in the list
card0_first_mapping(snap) ==
    LET cards == Get(snap, "cards")
        hits == IF IsList(cards) THEN {i \in 1..Len(cards.q) : IsDict(cards.q[i])} ELSE {}
    IN  IF hits # {} THEN cards.q[CHOOSE i \in hits : \A j \in hits : i <= j]
        ELSE IF IsDict(cards) THEN cards
        ELSE None

\* isinstance(cards, list) and cards: cards[0] if it is a dict;
\* isinstance(cards, dict): cards; None otherwise
card0(snap) ==
    LET cards == Get(snap, "cards")
    IN  IF IsList(cards) /\ Truthy(cards)
        THEN IF IsDict(cards.q[1]) THEN cards.q[1] ELSE None
        ELSE IF IsDict(cards) THEN cards
        ELSE None

pgcat0(snap) ==
    LET page_categories == Get(snap, "page_categories")
    IN  IF IsList(page_categories) /\ Truthy(page_categories)
        THEN IF IsDict(page_categories.q[1]) THEN page_categories.q[1] ELSE None
        ELSE IF IsDict(page_categories) THEN page_categories
        ELSE None

\* a link_url that prefers the card, as cta_text does
link_url_card_first(snap) ==
    Or(GetIfDict(card0(snap), "link_url"), Get(snap, "link_url"))

\* link_url = snap.get("link_url"); a falsy one is replaced by the card's
link_url(snap) ==
    LET l == Get(snap, "link_url")
    IN  IF ~Truthy(l) /\ IsDict(card0(snap)) THEN Get(card0(snap), "link_url") ELSE l

website_url(snap) ==
    Or(Get(snap, "link_url"), Or(Get(snap, "website"), Get(snap, "url")))

DigitChar(d) ==
    CASE d = 0 -> "0" [] d = 1 -> "1" [] d = 2 -> "2" [] d = 3 -> "3" [] d = 4 -> "4"
      [] d = 5 -> "5" [] d = 6 -> "6" [] d = 7 -> "7" [] d = 8 -> "8" [] d = 9 -> "9"

RECURSIVE Digits(_)
Digits(n) == IF n < 10 THEN DigitChar(n) ELSE Digits(n \div 10) \o DigitChar(n % 10)

\* str(c) of a scalar
str(c) ==
    CASE c.t = "str"  -> c.s
      [] c.t = "int"  -> IF c.n < 0 THEN "-" \o Digits(-c.n) ELSE Digits(c.n)
      [] c.t = "bool" -> IF c.b THEN "True" ELSE "False"
      [] c.t = "null" -> "None"

\* sep.join(q)
RECURSIVE Join(_, _)
Join(sep, q) ==
    IF Len(q) = 0 THEN ""
    ELSE IF Len(q) = 1 THEN q[1]
    ELSE q[1] \o sep \o Join(sep, Tail(q))

\* categories joined with a bare comma
categories_disp_comma(it) ==
    LET categories == Get(it, "categories")
    IN  IF IsList(categories)
        THEN PyStr(Join(",", [i \in 1..Len(categories.q) |-> str(categories.q[i])]))
        ELSE categories

categories_disp(it) ==
    LET categories == Get(it, "categories")
    IN  IF IsList(categories)
        THEN PyStr(Join(", ", [i \in 1..Len(categories.q) |-> str(categories.q[i])]))
        ELSE categories

\* a fallback that treats only None as absent
SnakeOrCamelNoneOnly(it, a, b) == IF Get(it, a) # None THEN Get(it, a) ELSE Get(it, b)

\* a fallback that ends in "or None"
SnakeOrCamelOrNone(it, a, b) == Or(Or(Get(it, a), Get(it, b)), None)

\* item.get(a) or item.get(b)
SnakeOrCamel(it, a, b) == Or(Get(it, a), Get(it, b))

\* a pass-through that nulls falsy values
PassThroughTruthy(it, k) == Or(Get(it, k), None)

\* item.get(k)
PassThrough(it, k) == Get(it, k)

\* the snapshot's value first, the card's only as a fallback
SnapOrCard(snap, k) == Or(Get(snap, k), GetIfDict(card0(snap), k))

\* (card0.get(k) if isinstance(card0, dict) else None) or snap.get(k)
CardOrSnap(snap, k) == Or(GetIfDict(card0(snap), k), Get(snap, k))

\* the dict literal returned by extract_selected_fields
RecordOf(it, snap) ==
    [ad_archive_id |-> SnakeOrCamel(it, "ad_archive_id", "adId"),
     categories |-> categories_disp(it),
     collation_count |-> PassThrough(it, "collation_count"),
     collation_id |-> PassThrough(it, "collation_id"),
     start_date |-> SnakeOrCamel(it, "start_date", "startDate"),
     end_date |-> SnakeOrCamel(it, "end_date", "endDate"),
     entity_type |-> PassThrough(it, "entity_type"),
     is_active |-> PassThrough(it, "is_active"),
     page_id |-> SnakeOrCamel(it, "page_id", "pageId"),
     page_name |-> SnakeOrCamel(it, "page_name", "pageName"),
     cta_text |-> CardOrSnap(snap, "cta_text"),
     cta_type |-> CardOrSnap(snap, "cta_type"),
     link_url |-> link_url(snap),
     display_url |-> Get(snap, "caption"),
     website_url |-> website_url(snap),
     page_entity_type |->
         Or(GetIfDict(pgcat0(snap), "page_entity_type"), Get(it, "page_entity_type")),
     page_profile_picture_url |->
         Or(Get(it, "page_profile_picture_url"), Get(snap, "page_profile_picture_url")),
     page_profile_uri |-> Or(Get(it, "page_profile_uri"), Get(snap, "page_profile_uri")),
     state_media_run_label |-> PassThrough(it, "state_media_run_label"),
     total_active_time |-> PassThrough(it, "total_active_time"),
     original_image_url |-> ImageUrl(it),
     video_url |-> VideoUrl(it, snap)]

\* a record that leaves out the keys whose value is None
extract_selected_fields_omit_null(it) ==
    LET fields == RecordOf(it, _get_snapshot_dict(it))
        kept == {k \in DOMAIN fields : fields[k] # None}
    IN  IF \E k \in DOMAIN fields : IsRaise(fields[k]) THEN Raise
        ELSE PyDict([k \in kept |-> fields[k]])

\* the returned dict, or Raise when evaluating any part of it raised
Returned(fields) ==
    IF \E k \in DOMAIN fields : IsRaise(fields[k]) THEN Raise ELSE PyDict(fields)

\* snap = _get_snapshot_dict(item); return {...}, the literal evaluated once
extract_selected_fields(it) ==
    CHOOSE r \in {Returned(fields) : fields \in {RecordOf(it, _get_snapshot_dict(it))}} : TRUE

(* -------------------------- date range filter -------------------------- *)

\* a datetime.date value
Date(y, m, d) == [t |-> "date", y |-> y, m |-> m, d |-> d]

CharAt(s, i) == SubSeq(s, i, i)

DigitValue(c) ==
    CASE c = "0" -> 0 [] c = "1" -> 1 [] c = "2" -> 2 [] c = "3" -> 3 [] c = "4" -> 4
      [] c = "5" -> 5 [] c = "6" -> 6 [] c = "7" -> 7 [] c = "8" -> 8 [] c = "9" -> 9
      [] OTHER -> -1

AllDigits(s) == Len(s) > 0 /\ \A i \in 1..Len(s) : DigitValue(CharAt(s, i)) >= 0

RECURSIVE NumberOf(_)
NumberOf(s) ==
    IF Len(s) = 0 THEN 0
    ELSE NumberOf(SubSeq(s, 1, Len(s) - 1)) * 10 + DigitValue(CharAt(s, Len(s)))

\* c in s
Contains(s, c) == \E i \in 1..Len(s) : CharAt(s, i) = c

\* s.find(c), counted from 1; 0 when c does not occur
Find(s, c) ==
    IF Contains(s, c)
    THEN CHOOSE i \in 1..Len(s) : CharAt(s, i) = c /\ \A j \in 1..(i - 1) : CharAt(s, j) # c
    ELSE 0

\* s.replace(c, r) for a one-character c
RECURSIVE Replace(_, _, _)
Replace(s, c, r) ==
    IF Len(s) = 0 THEN ""
    ELSE (IF Head(s) = c THEN r ELSE Head(s)) \o Replace(Tail(s), c, r)

\* s.split(c)
RECURSIVE SplitOn(_, _)
SplitOn(s, c) ==
    IF ~Contains(s, c) THEN <<s>>
    ELSE <<SubSeq(s, 1, Find(s, c) - 1)>> \o SplitOn(SubSeq(s, Find(s, c) + 1, Len(s)), c)

IsLeap(y) == (y % 4 = 0 /\ y % 100 # 0) \/ y % 400 = 0

DaysInMonth(y, m) ==
    IF m = 2 THEN (IF IsLeap(y) THEN 29 ELSE 28)
    ELSE IF m \in {4, 6, 9, 11} THEN 30 ELSE 31

\* date(y, m, d): ValueError outside the calendar
MakeDate(y, m, d) ==
    IF y \in 1..9999 /\ m \in 1..12 /\ d \in 1..DaysInMonth(y, m) THEN Date(y, m, d) ELSE Raise

\* datetime.strptime(s, '%Y-%m-%d').date(): a four-digit year, a month and a
\* day of one or two digits, nothing before, between or after
strptime_date(s) ==
    LET p == SplitOn(s, "-")
    IN  IF /\ Len(p) = 3
           /\ \A i \in 1..3 : AllDigits(p[i])
           /\ Len(p[1]) = 4 /\ Len(p[2]) \in 1..2 /\ Len(p[3]) \in 1..2
        THEN MakeDate(NumberOf(p[1]), NumberOf(p[2]), NumberOf(p[3]))
        ELSE Raise

\* HH[:MM[:SS[.fff[fff]]]] with two-digit components
HmsShape(s) ==
    LET n == Len(s)
    IN  /\ n \in {2, 5, 8, 12, 15}
        /\ AllDigits(SubSeq(s, 1, 2))
        /\ n >= 5 => (CharAt(s, 3) = ":" /\ AllDigits(SubSeq(s, 4, 5)))
        /\ n >= 8 => (CharAt(s, 6) = ":" /\ AllDigits(SubSeq(s, 7, 8)))
        /\ n > 8 => (CharAt(s, 9) = "." /\ AllDigits(SubSeq(s, 10, n)))

Hours(s) == NumberOf(SubSeq(s, 1, 2))

Minutes(s) == IF Len(s) >= 5 THEN NumberOf(SubSeq(s, 4, 5)) ELSE 0

Seconds(s) == IF Len(s) >= 8 THEN NumberOf(SubSeq(s, 7, 8)) ELSE 0

\* the time of day and the UTC offset of an ISO text after its separator
IsoTimeOk(ts) ==
    LET cut == IF Contains(ts, "-") THEN Find(ts, "-") ELSE Find(ts, "+")
        clock == IF cut = 0 THEN ts ELSE SubSeq(ts, 1, cut - 1)
        tz == IF cut = 0 THEN "" ELSE SubSeq(ts, cut + 1, Len(ts))
    IN  /\ HmsShape(clock)
        /\ Hours(clock) < 24 /\ Minutes(clock) < 60 /\ Seconds(clock) < 60
        /\ cut # 0 => /\ Len(tz) \in {5, 8, 15}
                      /\ HmsShape(tz)
                      /\ Hours(tz) * 3600 + Minutes(tz) * 60 + Seconds(tz) < 86400

\* datetime.fromisoformat(s).date(): YYYY-MM-DD, one separator character,
\* then an optional time of day with an optional UTC offset; the date is
\* the one written, whatever the offset
fromisoformat_date(s) ==
    IF /\ Len(s) >= 10
       /\ AllDigits(SubSeq(s, 1, 4)) /\ CharAt(s, 5) = "-"
       /\ AllDigits(SubSeq(s, 6, 7)) /\ CharAt(s, 8) = "-"
       /\ AllDigits(SubSeq(s, 9, 10))
       /\ Len(s) > 11 => IsoTimeOk(SubSeq(s, 12, Len(s)))
    THEN MakeDate(NumberOf(SubSeq(s, 1, 4)), NumberOf(SubSeq(s, 6, 7)), NumberOf(SubSeq(s, 9, 10)))
    ELSE Raise

\* a < b on dates
DateLT(a, b) ==
    \/ a.y < b.y
    \/ a.y = b.y /\ a.m < b.m
    \/ a.y = b.y /\ a.m = b.m /\ a.d < b.d

\* a <= b on dates
DateLE(a, b) ==
    \/ a.y < b.y
    \/ a.y = b.y /\ a.m < b.m
    \/ a.y = b.y /\ a.m = b.m /\ a.d <= b.d

\* the parse without the replacement of a trailing Z
parse_date_text_keep_z(s) ==
    IF Contains(s, "T") THEN fromisoformat_date(s) ELSE strptime_date(s)

\* ad_date: ISO date-time when the text holds a T, plain date otherwise
parse_date_text(s) ==
    IF Contains(s, "T")
    THEN fromisoformat_date(Replace(s, "Z", "+00:00"))
    ELSE strptime_date(s)

\* the body of the try block: Raise when the text is no string or no date
InRangeTry(ds, start_date, end_date) ==
    IF ~IsStr(ds) THEN Raise
    ELSE LET ad_date == parse_date_text(ds.s)
         IN  IF IsRaise(ad_date) THEN Raise
             ELSE PyBool(DateLE(start_date, ad_date) /\ DateLE(ad_date, end_date))

\* a filter whose except branch excludes what it cannot parse
is_date_in_range_strict(ds, start_date, end_date) ==
    IF ~Truthy(ds) THEN PyBool(TRUE)
    ELSE LET r == InRangeTry(ds, start_date, end_date)
         IN  IF IsRaise(r) THEN PyBool(FALSE) ELSE r

is_date_in_range(ds, start_date, end_date) ==
    IF ~Truthy(ds) THEN PyBool(TRUE)
    ELSE LET r == InRangeTry(ds, start_date, end_date)
         IN  IF IsRaise(r) THEN PyBool(TRUE) ELSE r

(* ------------------------------ raw items ------------------------------ *)

\* the ways a key can be present with a value of S, or absent
KV(k, S) == {<<>>} \cup {k :> v : v \in S}

\* the lists over E of at most n elements
Lists(E, n) == UNION {{PyList(q) : q \in [1..k -> E]} : k \in 0..n}

Falsy == {None, PyStr(""), PyInt(0), PyBool(FALSE)}

Scalars == Falsy \cup {PyStr("A"), PyInt(1), PyBool(TRUE)}

Scalars2 == Falsy \cup {PyStr("B"), PyInt(2)}

\* values of the wrong type for a sub-structure that should be a mapping or
\* a list of mappings
WrongTyped ==
    {None, PyInt(0), PyInt(7), PyBool(TRUE), PyStr(""), PyStr("x"),
     PyList(<<PyInt(1)>>), PyList(<<PyStr("x"), None>>)}

Card1 == PyDict([cta_text |-> PyStr("C1"), cta_type |-> PyStr("T1"), link_url |-> PyStr("K1")])

Card2 == PyDict([cta_text |-> PyStr(""), cta_type |-> PyInt(0), link_url |-> None])

Card3 == PyDict([link_url |-> PyStr("K3"), cta_type |-> PyStr("T3")])

CardElems == {Card1, Card2, Card3, PyInt(1), PyList(<<Card1>>)}

CardShapes == KV("cards", WrongTyped \cup {Card1, Card2, Card3, EmptyDict}
                          \cup Lists(CardElems, MaxListLen))

PgCat1 == PyDict([page_entity_type |-> PyStr("E1"), name |-> PyStr("Shop")])

PgCat2 == PyDict([page_entity_type |-> PyStr("")])

PgElems == {PgCat1, PgCat2, EmptyDict, None, PyStr("E9")}

PgShapes == KV("page_categories", WrongTyped \cup {PgCat1, PgCat2, EmptyDict}
                                  \cup Lists(PgElems, MaxListLen))

Img1 == PyDict([url |-> PyStr("U1")])

Img2 == PyDict([original_image_url |-> PyStr("O2"), src |-> PyStr("S2")])

Img3 == PyDict([original_picture_url |-> PyStr(""), original_picture |-> PyStr("P3"),
                url |-> PyStr("U3")])

Img4 == PyDict([original_image_url |-> None, url |-> PyInt(0), alt |-> PyStr("x")])

ImgElems == {Img1, Img2, Img3, Img4, EmptyDict, PyInt(1)}

ImgShapes == KV("images", WrongTyped \cup {Img1, Img3, Img4, EmptyDict}
                          \cup Lists(ImgElems, MaxListLen))

Vid1 == PyDict([url |-> PyStr("VU1")])

Vid2 == PyDict([video_hd_url |-> PyStr("HD2"), video_sd_url |-> PyStr("SD2")])

Vid3 == PyDict([video_hd_url |-> PyStr(""), video_preview_url |-> PyStr("PV3"),
                src |-> PyStr("VS3")])

Vid4 == PyDict([video_sd_url |-> None, url |-> PyBool(FALSE)])

VidElems == {Vid1, Vid2, Vid3, Vid4, None}

VidShapes == KV("videos", WrongTyped \cup {Vid1, Vid3, Vid4, EmptyDict}
                          \cup Lists(VidElems, MaxListLen))

CatElems == {PyStr("Apparel"), PyStr("Retail"), PyStr(""), PyInt(10), None, PyBool(TRUE)}

CatShapes == KV("categories", Scalars \cup {PyStr("Apparel, Retail"), EmptyDict,
                              PyDict([name |-> PyStr("Apparel")])}
                              \cup Lists(CatElems, MaxListLen))

\* a snapshot and an item that carry every sub-structure and scalar
RichSnap ==
    [images |-> PyList(<<Img3, Img1>>), videos |-> Vid2, cards |-> PyList(<<Card1, Card3>>),
     page_categories |-> PyList(<<PgCat1>>), link_url |-> PyStr("SL"),
     caption |-> PyStr("cap"), website |-> PyStr("SW"), url |-> PyStr("SU"),
     cta_text |-> PyStr("ST"), cta_type |-> PyStr("SY"),
     page_profile_picture_url |-> PyStr("SP"), page_profile_uri |-> PyStr("SR"),
     video_url |-> PyStr("SV")]

SnapBgs == {<<>>, RichSnap}

RichItem ==
    [ad_archive_id |-> PyStr("111"), adId |-> PyStr("112"), page_id |-> PyInt(5),
     pageName |-> PyStr("Shop"), startDate |-> PyStr("2024-03-15"),
     end_date |-> PyStr("2024-04-01"), endDate |-> PyStr("2024-05-01"),
     categories |-> PyList(<<PyStr("Apparel"), PyStr("Retail")>>),
     entity_type |-> PyStr("PERSON_PROFILE"), is_active |-> PyBool(FALSE),
     collation_count |-> PyInt(0),
     state_media_run_label |-> None, total_active_time |-> PyInt(3600),
     page_entity_type |-> PyStr("IE"), page_profile_uri |-> PyStr("IR"),
     thumbnailUrl |-> PyStr("T"), video |-> PyStr("IV")]

ItemBgs == {<<>>, RichItem}

\* item keys top @@ bg around a snapshot mapping with keys sn @@ sbg
Compose(top, sn, ibg, sbg) == PyDict(top @@ ("snapshot" :> PyDict(sn @@ sbg)) @@ ibg)

PairKeys ==
    <<<<"ad_archive_id", "adId">>, <<"page_id", "pageId">>, <<"page_name", "pageName">>,
      <<"start_date", "startDate">>, <<"end_date", "endDate">>>>

PassKeys ==
    {"entity_type", "is_active", "collation_count", "collation_id",
     "state_media_run_label", "total_active_time"}

\* items that vary one snake_case / camelCase pair
PairItem(x) ==
    \E a \in UNION {KV(PairKeys[i][1], Scalars) : i \in 1..Len(PairKeys)},
        b \in UNION {KV(PairKeys[i][2], Scalars2) : i \in 1..Len(PairKeys)},
        ibg \in ItemBgs :
        x = Compose(a @@ b, <<>>, ibg, <<>>)

\* items that vary one pass-through key
PassItem(x) ==
    \E a \in UNION {KV(k, Scalars \cup {PyList(<<>>), EmptyDict, PyList(<<PyInt(3)>>)}) :
                     k \in PassKeys},
        ibg \in ItemBgs, sbg \in SnapBgs :
        x = Compose(a, <<>>, ibg, sbg)

\* items that vary the page profile keys of the item and of the snapshot
ProfileItem(x) ==
    \E a \in KV("page_profile_picture_url", Scalars) \cup KV("page_profile_uri", Scalars),
        b \in KV("page_profile_picture_url", Scalars2) \cup KV("page_profile_uri", Scalars2),
        ibg \in ItemBgs :
        x = Compose(a, b, ibg, <<>>)

\* the shapes of item.snapshot itself
SnapshotShapes ==
    KV("snapshot",
       Scalars \cup {PyInt(7), PyList(<<>>), PyList(<<PyDict(RichSnap)>>),
                     EmptyDict, PyDict(RichSnap)}
       \cup {PyStr(s) : s \in
               {"not json", "{}", "[]", "null", "7", "\"A\"",
                "[{\"link_url\": \"L\"}]", "{\"link_url\": \"L\"}",
                "{\"link_url\": \"L\"", "{\"link_url\": \"L\"}}",
                "{\"cards\": [{\"cta_text\": \"C\", \"link_url\": \"K\"}], \"cta_text\": \"S\", \"caption\": null}",
                "{\"images\": {\"url\": \"U\"}, \"videos\": [1, {\"src\": \"V\"}], \"page_categories\": [{\"page_entity_type\": \"E\"}]}",
                "{\"images\": true, \"cards\": \"x\", \"link_url\": false}",
                "{'link_url': 'L'}"}})

SnapshotItem(x) == \E sh \in SnapshotShapes, ibg \in ItemBgs : x = PyDict(sh @@ ibg)

\* items that vary snapshot.cards and the snapshot's own CTA and link
CardItem(x) ==
    \E c \in CardShapes,
        own \in {<<>>, [link_url |-> PyStr("L"), cta_text |-> PyStr("S"), cta_type |-> PyStr("Y")],
                 [link_url |-> PyStr(""), cta_text |-> PyStr("")],
                 [link_url |-> None, cta_type |-> PyStr("Y")],
                 [cta_text |-> PyStr("S"), cta_type |-> PyInt(0)],
                 [link_url |-> PyStr("L")]},
        sbg \in SnapBgs :
        x = Compose(<<>>, c @@ own, <<>>, sbg)

\* items that vary snapshot.page_categories and item.page_entity_type
PgCatItem(x) ==
    \E e \in KV("page_entity_type", {PyStr(""), PyStr("IE")}),
        pg \in PgShapes, sbg \in SnapBgs :
        x = Compose(e, pg, <<>>, sbg)

\* items that vary snapshot.images and the item's own image keys
ImageItem(x) ==
    \E top \in {<<>>, [imageUrl |-> PyStr("I1")],
                 [imageUrl |-> PyStr(""), image_url |-> None, thumbnail_url |-> PyStr("T2"),
                  image |-> PyStr("G")],
                 [thumbnailUrl |-> PyInt(0), image |-> PyStr("")]},
        im \in ImgShapes, sbg \in SnapBgs :
        x = Compose(top, im, <<>>, sbg)

\* items that vary snapshot.videos and the video keys of item and snapshot
VideoItem(x) ==
    \E keys \in {<<<<>>, <<>>>>,
                 <<[videoUrl |-> PyStr("IV1")], [videoUrl |-> PyStr("SV1")]>>,
                 <<[video_url |-> PyStr("IV2")], [videoUrl |-> PyStr("SV1")]>>,
                 <<[video_url |-> PyStr(""), video |-> PyStr("IV3")], [video_url |-> PyStr("SV2")]>>,
                 <<[video_sd_url |-> PyStr("IV5")], <<>>>>,
                 <<<<>>, [video_hd_url |-> PyStr("SV4"), videoUrl |-> PyInt(0)]>>,
                 <<[video |-> None], [video_sd_url |-> PyStr("SV5"), video |-> PyStr("")]>>,
                 <<[video_hd_url |-> PyStr("IV4")], [video |-> PyStr("SV3")]>>},
        vd \in VidShapes :
        x = Compose(keys[1], vd @@ keys[2], <<>>, <<>>)

\* items that vary item.categories
CategoryItem(x) ==
    \E c \in CatShapes, ibg \in ItemBgs :
        x = Compose(c, <<>>, ibg, <<>>)

\* items that vary the snapshot's link, website, url and caption
WebsiteItem(x) ==
    \E l \in KV("link_url", {PyStr(""), PyStr("L")}),
        w \in KV("website", {None, PyStr("W")}),
        u \in KV("url", {PyInt(0), PyStr("U")}),
        c \in KV("caption", {PyStr(""), PyStr("cap2")}),
        sbg \in SnapBgs :
        x = Compose(<<>>, l @@ w @@ u @@ c, <<>>, sbg)

\* the raw items the search API is taken to return
IsItem(x) ==
    \/ PairItem(x) \/ PassItem(x) \/ ProfileItem(x) \/ SnapshotItem(x) \/ CardItem(x)
    \/ PgCatItem(x) \/ ImageItem(x) \/ VideoItem(x) \/ CategoryItem(x) \/ WebsiteItem(x)

(* --------------------------- the state machine ------------------------- *)

\* no storage call has been made
StoreIdle ==
    /\ now = 0 /\ tables = <<>> /\ ad_tables = {}
    /\ store_ret = [op |-> "none", value |-> None]
    /\ calls = 0

UploadIdle ==
    /\ uploads = [rows |-> {}, seq |-> 0]
    /\ upload_call = [op |-> "none"]
    /\ upload_id = None

PromptIdle ==
    /\ base_prompt_json = None /\ variant_json = None
    /\ prompt_text = None /\ preview_text = None

BlocksIdle == text = "" /\ parsed = None

AnalyzeIdle ==
    /\ run = "none" /\ polls = 0 /\ msgs = <<>>
    /\ analysis = [kind |-> "none"]

EngineIdle == PromptIdle /\ BlocksIdle /\ AnalyzeIdle

UiIdle ==
    /\ save_modal_ad = None /\ pending_save_ads = None
    /\ rendered = "nothing" /\ event = [widget |-> "none", message |-> ""]
    /\ runs = 0

LaterIdle == StoreIdle /\ UploadIdle /\ EngineIdle /\ UiIdle

\* nothing is fetched, filtered or scraped
EarlierIdle ==
    /\ item = None /\ locals = None /\ record = None /\ again = None
    /\ date_str = None /\ range = None /\ verdict = None
    /\ items = <<>> /\ idx = 0 /\ processed_items = <<>>

\* one raw item has been fetched; nothing is extracted yet
Init ==
    /\ IsItem(item)
    /\ locals = None
    /\ record = None
    /\ again = None
    /\ pc = "fetched"
    /\ date_str = None /\ range = None /\ verdict = None
    /\ items = <<>> /\ idx = 0 /\ processed_items = <<>>
    /\ LaterIdle

\* processed_item = extract_selected_fields(item)
Extract ==
    /\ pc = "fetched"
    /\ locals' = LET snap == _get_snapshot_dict(item)
                 IN  [snap |-> snap, card0 |-> card0(snap), pgcat0 |-> pgcat0(snap),
                      nested_image |-> get_original_image_url(item),
                      nested_video |-> VideoScan(CoerceToList(Get(snap, "videos")), 1)]
    /\ record' = extract_selected_fields(item)
    /\ pc' = IF IsRaise(record') THEN "raised" ELSE "extracted"
    /\ UNCHANGED <<item, again, range>>
    /\ UNCHANGED <<dateVars, scrapeVars>>
    /\ UNCHANGED laterVars

\* extract_selected_fields applied to its own output, used as a raw item
Renormalize ==
    /\ pc = "extracted"
    /\ again' = extract_selected_fields(record)
    /\ pc' = IF IsRaise(again') THEN "reraised" ELSE "renormalized"
    /\ UNCHANGED <<item, locals, record, range>>
    /\ UNCHANGED <<dateVars, scrapeVars>>
    /\ UNCHANGED laterVars

Next == Extract \/ Renormalize

Spec == Init /\ [][Next]_vars

(* ---------------------- the date filter on its own --------------------- *)

Pad2(n) == IF n < 10 THEN "0" \o Digits(n) ELSE Digits(n)

Pad4(n) ==
    IF n < 10 THEN "000" \o Digits(n)
    ELSE IF n < 100 THEN "00" \o Digits(n)
    ELSE IF n < 1000 THEN "0" \o Digits(n)
    ELSE Digits(n)

\* date.isoformat(): YYYY-MM-DD
DateText(d) == Pad4(d.y) \o "-" \o Pad2(d.m) \o "-" \o Pad2(d.d)

\* the calendar dates whose texts are filtered
Dates ==
    {Date(2023, 12, 31), Date(2024, 1, 1), Date(2024, 1, 2), Date(2024, 2, 29),
     Date(2024, 3, 15), Date(2024, 6, 1), Date(2024, 12, 30), Date(2024, 12, 31),
     Date(2025, 1, 1), Date(987, 6, 5)}

\* the ends of the caller's range
RangeDates == {Date(2024, 1, 1), Date(2024, 1, 31), Date(2024, 3, 15), Date(2024, 12, 31)}

\* times of day, with and without a UTC offset, as ISO-8601 writes them
TimeSuffixes ==
    {"T10:00:00Z", "T00:00:00", "T23:59:59Z", "T23:30:00-05:00", "T00:15+05:30",
     "T10:00:00.123456+00:00", "T07:08:09.123"}

\* texts that are no date
BadDateTexts ==
    {"not-a-date", "2024-02-30", "2023-02-29", "2024-13-01", "2024-00-10", "2024-03-00",
     "2024-03-15 ", "15/03/2024", "20240315", "24-03-15", "2024-03-15-01", "0000-01-01",
     "2024-03-15T25:00:00", "2024-03-15Tnoon", "T", "2024-02-30T10:00:00Z",
     "2024-03-15t10:00:00", "2024-03-15T10:00:00+5", "2024-03-15T10:00:00ZZ"}

DateInputs ==
    {PyStr(DateText(d)) : d \in Dates}
    \cup {PyStr(DateText(d) \o sfx) : d \in Dates, sfx \in TimeSuffixes}
    \cup {PyStr(s) : s \in BadDateTexts}
    \cup {PyStr("2024-3-15"), PyStr("2024-1-1"), PyStr("2024-12-5")}
    \cup {None, PyStr(""), PyInt(0), PyInt(20240315), PyBool(TRUE), PyList(<<PyStr("T")>>),
          PyList(<<>>), PyDict([T |-> PyStr("2024-03-15")])}

\* a text and a range have been given to the filter
InitDate ==
    /\ date_str \in DateInputs
    /\ range \in [start : RangeDates, end : RangeDates]
    /\ verdict = None
    /\ pc = "date_given"
    /\ item = None /\ locals = None /\ record = None /\ again = None
    /\ items = <<>> /\ idx = 0 /\ processed_items = <<>>
    /\ LaterIdle

\* verdict = is_date_in_range(date_str, start, end)
CheckDate ==
    /\ pc = "date_given"
    /\ verdict' = is_date_in_range(date_str, range.start, range.end)
    /\ pc' = "date_checked"
    /\ UNCHANGED <<date_str, range>>
    /\ UNCHANGED <<extractVars, scrapeVars>>
    /\ UNCHANGED laterVars

NextDate == CheckDate

SpecDate == InitDate /\ [][NextDate]_vars

(* ------------------------ run_facebook_ads_scrape ---------------------- *)

\* raw items of a search, told apart by their id, that vary the start date
ScrapeItems ==
    {PyDict([ad_archive_id |-> PyStr("1"), start_date |-> PyStr("2024-03-15"),
             snapshot |-> PyDict([cta_text |-> PyStr("Shop"),
                                  cards |-> PyList(<<PyDict([title |-> PyStr("t")])>>)])]),
     PyDict([ad_archive_id |-> PyStr("2"), start_date |-> PyStr("2023-12-31")]),
     PyDict([adId |-> PyStr("3"), startDate |-> PyStr("2024-06-01T10:00:00Z")]),
     PyDict([ad_archive_id |-> PyStr("4"), page_name |-> PyStr("P")]),
     PyDict([ad_archive_id |-> PyStr("5"), start_date |-> PyStr("not-a-date")]),
     PyDict([ad_archive_id |-> PyStr("6"), start_date |-> PyStr(""),
             startDate |-> PyStr("2025-01-01")]),
     PyDict([ad_archive_id |-> PyStr("7"), start_date |-> PyInt(20240315)]),
     PyDict([ad_archive_id |-> PyStr("8"), start_date |-> PyStr("2024-12-31"),
             snapshot |-> PyStr("{\"link_url\": \"L\"}")])}

\* the sequences of at most n raw items
RECURSIVE ItemSeqs(_)
ItemSeqs(n) ==
    IF n = 0 THEN {<<>>}
    ELSE LET shorter == ItemSeqs(n - 1)
         IN  shorter \cup {Append(q, x) : q \in {r \in shorter : Len(r) = n - 1},
                                         x \in ScrapeItems}

\* start_date and end_date as the caller passes them: both, one, or neither
ScrapeRanges ==
    {[start |-> None, end |-> None],
     [start |-> Date(2024, 1, 1), end |-> None],
     [start |-> None, end |-> Date(2024, 12, 31)],
     [start |-> Date(2024, 1, 1), end |-> Date(2024, 12, 31)],
     [start |-> Date(2024, 3, 15), end |-> Date(2024, 3, 15)],
     [start |-> Date(2024, 12, 31), end |-> Date(2024, 1, 1)]}

\* a loop body that also skips the records without a start date
KeepRecordDated(processed_item, start_date, end_date) ==
    IF Truthy(start_date) /\ Truthy(end_date)
    THEN LET start_date_str == Get(processed_item, "start_date")
         IN  /\ Truthy(start_date_str)
             /\ Truthy(is_date_in_range(start_date_str, start_date, end_date))
    ELSE TRUE

\* the loop body's decision: FALSE for continue, TRUE for append
KeepRecord(processed_item, start_date, end_date) ==
    IF Truthy(start_date) /\ Truthy(end_date)
    THEN LET start_date_str == Get(processed_item, "start_date")
         IN  ~(/\ Truthy(start_date_str)
               /\ ~Truthy(is_date_in_range(start_date_str, start_date, end_date)))
    ELSE TRUE

\* the scrape is about to call the actor
InitScrape ==
    /\ pc = "calling"
    /\ range \in ScrapeRanges
    /\ items = <<>> /\ idx = 0 /\ processed_items = <<>>
    /\ item = None /\ locals = None /\ record = None /\ again = None
    /\ date_str = None /\ verdict = None
    /\ LaterIdle

\* items = list(client.dataset(dataset_id).iterate_items()); processed_items = []
FetchItems ==
    /\ pc = "calling"
    /\ items' \in ItemSeqs(MaxItems)
    /\ idx' = 1
    /\ processed_items' = <<>>
    /\ pc' = "looping"
    /\ UNCHANGED <<range, extractVars, dateVars>>
    /\ UNCHANGED laterVars

\* the actor call or the dataset read raises, or no dataset id comes back:
\* the except branch returns []
FetchFails ==
    /\ pc = "calling"
    /\ items' = <<>>
    /\ idx' = 1
    /\ processed_items' = <<>>
    /\ pc' = "returned"
    /\ UNCHANGED <<range, extractVars, dateVars>>
    /\ UNCHANGED laterVars

\* one turn of: for item in items -- normalize, then continue or append;
\* an exception leaves the loop for the except branch, which returns []
ProcessItem ==
    /\ pc = "looping"
    /\ idx <= Len(items)
    /\ \E processed_item \in {extract_selected_fields(items[idx])} :
          IF IsRaise(processed_item)
          THEN /\ processed_items' = <<>>
               /\ pc' = "returned"
               /\ idx' = idx
          ELSE /\ processed_items' =
                      IF KeepRecord(processed_item, range.start, range.end)
                      THEN Append(processed_items, processed_item)
                      ELSE processed_items
               /\ pc' = "looping"
               /\ idx' = idx + 1
    /\ UNCHANGED <<items, range, extractVars, dateVars>>
    /\ UNCHANGED laterVars

\* return processed_items
ReturnItems ==
    /\ pc = "looping"
    /\ idx > Len(items)
    /\ pc' = "returned"
    /\ UNCHANGED <<items, idx, processed_items, range, extractVars, dateVars>>
    /\ UNCHANGED laterVars

NextScrape == FetchItems \/ FetchFails \/ ProcessItem \/ ReturnItems

SpecScrape == InitScrape /\ [][NextScrape]_vars

(* ------------------------- the collection store ------------------------ *)

UpperCase == "ABCDEFGHIJKLMNOPQRSTUVWXYZ"

LowerCase == "abcdefghijklmnopqrstuvwxyz"

DecimalDigits == "0123456789"

\* c.isalnum() of an ASCII character
isalnum(c) == Contains(UpperCase, c) \/ Contains(LowerCase, c) \/ Contains(DecimalDigits, c)

\* c.lower() of an ASCII character
lower(c) == IF Contains(UpperCase, c) THEN CharAt(LowerCase, Find(UpperCase, c)) ELSE c

\* "".join(c for c in table_name if c.isalnum() or c in ('_',)).lower()
RECURSIVE Sanitized(_)
Sanitized(table_name) ==
    IF Len(table_name) = 0 THEN ""
    ELSE (IF isalnum(Head(table_name)) \/ Head(table_name) = "_"
          THEN lower(Head(table_name)) ELSE "")
         \o Sanitized(Tail(table_name))

base_name(table_name) == "ads_" \o Sanitized(table_name)

\* the name create_ads_table settles on at second t, given the tables that exist
safe_table_name(existing, table_name, t) ==
    IF base_name(table_name) \in existing
    THEN base_name(table_name) \o "_" \o Digits(t)
    ELSE base_name(table_name)

\* INSERT OR REPLACE INTO ad_tables: table_name is the primary key
RegistryReplace(reg, row) == {r \in reg : r.table_name # row.table_name} \cup {row}

\* a delete_table that leaves the registry row behind
RegistryKept(reg, table_name) == reg

\* DELETE FROM ad_tables WHERE table_name = ?
RegistryWithout(reg, table_name) == {r \in reg : r.table_name # table_name}

\* the rows get_available_tables returns (their order is not kept)
get_available_tables == ad_tables

\* the columns of an ads table that save_ad_to_table fills from ad_data
AdColumns ==
    <<"ad_archive_id", "page_name", "page_id", "categories", "start_date", "end_date",
      "is_active", "cta_text", "cta_type", "link_url", "display_url", "website_url",
      "original_image_url", "video_url", "collation_count", "collation_id",
      "entity_type", "page_entity_type", "page_profile_picture_url",
      "page_profile_uri", "state_media_run_label", "total_active_time">>

\* is_active BOOLEAN and collation_count INTEGER; every other column is TEXT
NumericColumns == {"is_active", "collation_count"}

\* sqlite3 binds None, int, str (and bool as int); a list or dict is an error
Bindable(v) == v.t \in {"null", "str", "int", "bool"}

SqlBind(v) == IF v.t = "bool" THEN PyInt(IF v.b THEN 1 ELSE 0) ELSE v

\* a value as a TEXT column stores it
TextAffinity(v) == IF v.t = "int" THEN PyStr(str(v)) ELSE v

\* a value as a numeric column stores it
NumericAffinity(v) ==
    IF v.t = "str" /\ AllDigits(v.s) THEN PyInt(NumberOf(v.s)) ELSE v

Stored(column, v) ==
    IF column \in NumericColumns THEN NumericAffinity(SqlBind(v)) ELSE TextAffinity(SqlBind(v))

\* WHERE ad_archive_id = ?  -- never true of NULL on either side
SqlEquals(stored, param) ==
    stored # None /\ param # None /\ stored = TextAffinity(SqlBind(param))

SaveError == <<FALSE, "Error saving ad">>

\* save_ad_to_table on the tables tbls: the tables afterwards and the pair returned
save_ad_to_table(tbls, table_name, ad_data, notes, t) ==
    LET key == Get(ad_data, "ad_archive_id")
    IN  IF table_name \notin DOMAIN tbls \/ ~Bindable(key)
        THEN [tables |-> tbls, value |-> SaveError]
        ELSE IF \E r \in tbls[table_name].rows : SqlEquals(r.cols["ad_archive_id"], key)
        THEN [tables |-> tbls, value |-> <<FALSE, "Ad already exists in this collection">>]
        ELSE IF \E i \in 1..Len(AdColumns) : ~Bindable(Get(ad_data, AdColumns[i]))
        THEN [tables |-> tbls, value |-> SaveError]
        ELSE LET id == tbls[table_name].seq + 1
                 row == [id |-> id,
                         cols |-> [c \in {AdColumns[i] : i \in 1..Len(AdColumns)} |->
                                      Stored(c, Get(ad_data, c))],
                         notes |-> notes,
                         saved_at |-> t]
             IN  [tables |-> [tbls EXCEPT ![table_name] =
                                 [rows |-> @.rows \cup {row}, seq |-> id]],
                  value |-> <<TRUE, "Ad saved successfully!">>]

\* create_ads_table at second t: the tables and the registry afterwards and
\* the name returned; CREATE TABLE IF NOT EXISTS leaves an existing table alone
create_ads_table(tbls, reg, table_name, description, t) ==
    CHOOSE r \in
        {[tables |-> IF safe \in DOMAIN tbls THEN tbls
                     ELSE tbls @@ (safe :> [rows |-> {}, seq |-> 0]),
          ad_tables |-> RegistryReplace(reg, [table_name |-> safe,
                                              description |-> description,
                                              created_at |-> t]),
          value |-> safe] :
            safe \in {safe_table_name(DOMAIN tbls, table_name, t)}} : TRUE

\* names typed for a new collection
CollectionNames == {"My Ads!", "my ads", "Q4"}

Descriptions == {"", "d"}

\* ad records handed to save_ad_to_table
AdRecords ==
    {PyDict([ad_archive_id |-> PyStr("1"), page_name |-> PyStr("P"), is_active |-> PyBool(TRUE)]),
     PyDict([ad_archive_id |-> PyInt(1), collation_count |-> PyStr("05")]),
     PyDict([ad_archive_id |-> None, page_name |-> PyStr("P")]),
     PyDict([page_name |-> PyStr("Q")]),
     PyDict([ad_archive_id |-> PyStr(""), page_name |-> PyStr("P")]),
     PyDict([ad_archive_id |-> PyStr("2"), collation_count |-> PyList(<<PyInt(1)>>)]),
     PyDict([ad_archive_id |-> PyList(<<PyStr("1")>>)])}

\* the names the pages pass to the storage calls: the registered and the
\* existing collections, and one that was never created
KnownTables == DOMAIN tables \cup {r.table_name : r \in ad_tables} \cup {"ads_gone"}

\* init_database has created the registry; no collection exists
InitStore ==
    /\ pc = "store"
    /\ StoreIdle
    /\ UploadIdle
    /\ EngineIdle
    /\ UiIdle
    /\ EarlierIdle

\* time passes
Tick ==
    /\ pc = "store"
    /\ now < MaxTicks
    /\ now' = now + 1
    /\ UNCHANGED <<tables, ad_tables, store_ret, calls, pc, earlierVars, uploadVars, engineVars, uiVars>>

CreateAdsTable ==
    /\ pc = "store"
    /\ calls < MaxCalls
    /\ \E table_name \in CollectionNames, description \in Descriptions :
          \E r \in {create_ads_table(tables, ad_tables, table_name, description, now)} :
              /\ tables' = r.tables
              /\ ad_tables' = r.ad_tables
              /\ store_ret' = [op |-> "create_ads_table", value |-> r.value]
    /\ calls' = calls + 1
    /\ UNCHANGED <<now, pc, earlierVars, uploadVars, engineVars, uiVars>>

SaveAdToTable ==
    /\ pc = "store"
    /\ calls < MaxCalls
    /\ \E table_name \in KnownTables, ad_data \in AdRecords :
          \E r \in {save_ad_to_table(tables, table_name, ad_data, "", now)} :
              /\ tables' = r.tables
              /\ store_ret' = [op |-> "save_ad_to_table", value |-> r.value,
                               table_name |-> table_name, ad_data |-> ad_data]
    /\ calls' = calls + 1
    /\ UNCHANGED <<now, ad_tables, pc, earlierVars, uploadVars, engineVars, uiVars>>

\* DELETE FROM table WHERE id = ?, on a listed collection
DeleteSavedAd ==
    /\ pc = "store"
    /\ calls < MaxCalls
    /\ \E table_name \in DOMAIN tables :
          \E ad_id \in 1..tables[table_name].seq :
              /\ tables' = [tables EXCEPT ![table_name].rows = {r \in @ : r.id # ad_id}]
              /\ store_ret' = [op |-> "delete_saved_ad", value |-> None]
    /\ calls' = calls + 1
    /\ UNCHANGED <<now, ad_tables, pc, earlierVars, uploadVars, engineVars, uiVars>>

\* DROP TABLE IF EXISTS, then the registry row is deleted
DeleteTable ==
    /\ pc = "store"
    /\ calls < MaxCalls
    /\ \E table_name \in KnownTables :
          /\ tables' = [n \in DOMAIN tables \ {table_name} |-> tables[n]]
          /\ ad_tables' = RegistryWithout(ad_tables, table_name)
          /\ store_ret' = [op |-> "delete_table", value |-> table_name]
    /\ calls' = calls + 1
    /\ UNCHANGED <<now, pc, earlierVars, uploadVars, engineVars, uiVars>>

NextStore == Tick \/ CreateAdsTable \/ SaveAdToTable \/ DeleteSavedAd \/ DeleteTable

SpecStore == InitStore /\ [][NextStore]_vars

(* --------------------------- the uploads table ------------------------- *)

\* image contents; the names stand for byte strings
Contents == {"png-a", "png-b", "png-c"}

Filenames == {"search_0.png", "collection_0.png"}

\* hashlib.sha256(data).hexdigest(): distinct contents have distinct digests
_sha256_bytes(data) == "sha256:" \o data

\* an uploads table without the UNIQUE constraint on sha256
Sha256Unconstrained(rows, hash_hex) == FALSE

\* sha256 TEXT UNIQUE: the INSERT raises IntegrityError when the digest is stored
Sha256Taken(rows, hash_hex) == \E r \in rows : r.sha256 = hash_hex

\* SELECT id FROM uploads WHERE sha256 = ?, then row[0] if row else -1
IdOfSha256(rows, hash_hex) ==
    IF \E r \in rows : r.sha256 = hash_hex
    THEN PyInt((CHOOSE r \in rows : r.sha256 = hash_hex).id)
    ELSE PyInt(-1)

InitUploads ==
    /\ pc = "uploads"
    /\ UploadIdle
    /\ StoreIdle
    /\ EngineIdle
    /\ UiIdle
    /\ EarlierIdle

SaveUploadedImage ==
    /\ pc = "uploads"
    /\ uploads.seq < MaxUploads
    /\ \E filename \in Filenames, data \in Contents :
          \E hash_hex \in {_sha256_bytes(data)} :
              /\ upload_call' = [op |-> "save_uploaded_image", filename |-> filename,
                                 content_type |-> "image/png", data |-> data]
              /\ IF Sha256Taken(uploads.rows, hash_hex)
                 THEN /\ uploads' = uploads
                      /\ upload_id' = IdOfSha256(uploads.rows, hash_hex)
                 ELSE /\ uploads' = [rows |-> uploads.rows \cup
                                        {[id |-> uploads.seq + 1, filename |-> filename,
                                          content_type |-> "image/png",
                                          sha256 |-> hash_hex, data |-> data]},
                                     seq |-> uploads.seq + 1]
                      /\ upload_id' = PyInt(uploads.seq + 1)
    /\ UNCHANGED <<pc, earlierVars, storeVars, engineVars, uiVars>>

\* the Clear Database button: DELETE FROM uploads keeps the id sequence
ClearDatabase ==
    /\ pc = "uploads"
    /\ uploads.rows # {}
    /\ uploads' = [uploads EXCEPT !.rows = {}]
    /\ upload_call' = [op |-> "clear"]
    /\ upload_id' = None
    /\ UNCHANGED <<pc, earlierVars, storeVars, engineVars, uiVars>>

NextUploads == SaveUploadedImage \/ ClearDatabase

SpecUploads == InitUploads /\ [][NextUploads]_vars

(* ----------------------------- prompt texts --------------------------- *)

\* a dict whose text matters: its items <<key, value>> in insertion order
PyObject(kv) == [t |-> "object", kv |-> kv]

IsObject(v) == v.t = "object"

\* k in d
HasKey(d, k) == \E i \in 1..Len(d.kv) : d.kv[i][1] = k

\* d[k] of a key that is there
ValueAt(d, k) == d.kv[CHOOSE i \in 1..Len(d.kv) : d.kv[i][1] = k][2]

\* d[k] = v: a key already there keeps its place, a new key goes last
SetItem(d, k, v) ==
    IF HasKey(d, k)
    THEN PyObject([i \in 1..Len(d.kv) |-> IF d.kv[i][1] = k THEN <<k, v>> ELSE d.kv[i]])
    ELSE PyObject(Append(d.kv, <<k, v>>))

\* the text of a string literal: quotes and backslashes are escaped
RECURSIVE Escaped(_)
Escaped(s) ==
    IF Len(s) = 0 THEN ""
    ELSE (IF Head(s) = "\"" THEN "\\\""
          ELSE IF Head(s) = "\\" THEN "\\\\"
          ELSE Head(s))
         \o Escaped(Tail(s))

Quoted(s) == "\"" \o Escaped(s) \o "\""

\* n levels of indentation, two spaces each
RECURSIVE Indent(_)
Indent(n) == IF n = 0 THEN "" ELSE "  " \o Indent(n - 1)

RECURSIVE json_dumps(_)
RECURSIVE DumpsEach(_, _)

\* the texts of the elements of a list, or of the items of a dict
DumpsEach(q, keyed) ==
    [i \in 1..Len(q) |->
        IF keyed THEN Quoted(q[i][1]) \o ": " \o json_dumps(q[i][2])
        ELSE json_dumps(q[i])]

\* json.dumps(v, ensure_ascii=False)
json_dumps(v) ==
    CASE v.t = "null" -> "null"
      [] v.t = "bool" -> IF v.b THEN "true" ELSE "false"
      [] v.t = "int"  -> str(v)
      [] v.t = "str"  -> Quoted(v.s)
      [] v.t = "list" -> "[" \o Join(", ", DumpsEach(v.q, FALSE)) \o "]"
      [] v.t = "object" -> "{" \o Join(", ", DumpsEach(v.kv, TRUE)) \o "}"

RECURSIVE json_dumps_indent(_, _)
RECURSIVE DumpsEachIndent(_, _, _)

DumpsEachIndent(q, keyed, level) ==
    [i \in 1..Len(q) |->
        IF keyed THEN Quoted(q[i][1]) \o ": " \o json_dumps_indent(q[i][2], level)
        ELSE json_dumps_indent(q[i], level)]

\* json.dumps(v, ensure_ascii=False, indent=2), v standing at depth level
json_dumps_indent(v, level) ==
    CASE v.t = "list" /\ Len(v.q) > 0 ->
            "[\n" \o Indent(level + 1)
            \o Join(",\n" \o Indent(level + 1), DumpsEachIndent(v.q, FALSE, level + 1))
            \o "\n" \o Indent(level) \o "]"
      [] v.t = "object" /\ Len(v.kv) > 0 ->
            "{\n" \o Indent(level + 1)
            \o Join(",\n" \o Indent(level + 1), DumpsEachIndent(v.kv, TRUE, level + 1))
            \o "\n" \o Indent(level) \o "}"
      [] OTHER -> json_dumps(v)

\* json.loads(json.dumps(v)) of a JSON document with string keys: a copy that
\* shares nothing with v
RECURSIVE json_copy(_)
json_copy(v) ==
    CASE v.t = "list" -> PyList([i \in 1..Len(v.q) |-> json_copy(v.q[i])])
      [] v.t = "object" ->
            PyObject([i \in 1..Len(v.kv) |-> <<v.kv[i][1], json_copy(v.kv[i][2])>>])
      [] OTHER -> v

\* prompt_copy once the variant is put in: under "instructions" when that is
\* a dict, else at the top level; a base that is no dict is left as it is
WithVariant(prompt_copy, variant) ==
    IF IsObject(prompt_copy)
    THEN IF HasKey(prompt_copy, "instructions") /\ IsObject(ValueAt(prompt_copy, "instructions"))
         THEN SetItem(prompt_copy, "instructions",
                      SetItem(ValueAt(prompt_copy, "instructions"), "variants",
                              PyList(<<variant>>)))
         ELSE SetItem(prompt_copy, "variants", PyList(<<variant>>))
    ELSE prompt_copy

\* base specifications as the analysis returns them or the user edits them
BaseSpecs ==
    {PyObject(<<>>),
     PyObject(<<<<"style", PyStr("flat")>>>>),
     PyObject(<<<<"instructions", PyObject(<<<<"tone", PyStr("bold")>>>>)>>, <<"n", PyInt(2)>>>>),
     PyObject(<<<<"instructions", PyStr("none")>>>>),
     PyObject(<<<<"instructions", PyObject(<<<<"variants", PyList(<<PyInt(1)>>)>>>>)>>>>),
     PyObject(<<<<"variants", PyList(<<>>)>>, <<"size", None>>>>),
     PyList(<<>>),
     PyList(<<PyBool(TRUE)>>)}

Variants ==
    {PyObject(<<>>),
     PyObject(<<<<"name", PyStr("A")>>>>),
     PyObject(<<<<"id", PyInt(-1)>>, <<"cta", PyStr("Buy \"now\"")>>>>),
     PyObject(<<<<"tags", PyList(<<PyStr("x"), PyStr("y")>>)>>>>),
     None}

InitPrompt ==
    /\ pc = "prompt"
    /\ base_prompt_json \in BaseSpecs
    /\ variant_json \in Variants
    /\ prompt_text = None
    /\ preview_text = None
    /\ BlocksIdle /\ AnalyzeIdle
    /\ StoreIdle /\ UploadIdle /\ UiIdle
    /\ EarlierIdle

\* up to the call of client.images.generate: prompt_text is its prompt
GenerateSingleVariantImage ==
    /\ pc = "prompt"
    /\ prompt_text = None
    /\ \E prompt_copy \in {WithVariant(json_copy(base_prompt_json), variant_json)} :
          prompt_text' = PyStr(json_dumps(prompt_copy))
    /\ UNCHANGED <<base_prompt_json, variant_json, preview_text, pc,
                   blocksVars, analyzeVars, earlierVars, storeVars, uploadVars, uiVars>>

BuildPromptText ==
    /\ pc = "prompt"
    /\ preview_text = None
    /\ \E prompt_copy \in {WithVariant(json_copy(base_prompt_json), variant_json)} :
          preview_text' = PyStr(json_dumps_indent(prompt_copy, 0))
    /\ UNCHANGED <<base_prompt_json, variant_json, prompt_text, pc,
                   blocksVars, analyzeVars, earlierVars, storeVars, uploadVars, uiVars>>

NextPrompt == GenerateSingleVariantImage \/ BuildPromptText

SpecPrompt == InitPrompt /\ [][NextPrompt]_vars

(* ------------------------- _extract_json_blocks ------------------------ *)

Whitespace == {" ", "\n", "\t", "\r"}

RECURSIVE lstrip(_)
lstrip(s) ==
    IF Len(s) > 0 /\ CharAt(s, 1) \in Whitespace THEN lstrip(SubSeq(s, 2, Len(s))) ELSE s

RECURSIVE rstrip(_)
rstrip(s) ==
    IF Len(s) > 0 /\ CharAt(s, Len(s)) \in Whitespace
    THEN rstrip(SubSeq(s, 1, Len(s) - 1)) ELSE s

\* s.strip()
strip(s) == lstrip(rstrip(s))

\* s.startswith(p)
startswith(s, p) == Len(s) >= Len(p) /\ SubSeq(s, 1, Len(p)) = p

\* p in s
HasSubstring(s, p) == \E i \in 1..(Len(s) - Len(p) + 1) : SubSeq(s, i, i + Len(p) - 1) = p

\* s.lower()
RECURSIVE LowerCased(_)
LowerCased(s) ==
    IF Len(s) = 0 THEN "" ELSE lower(CharAt(s, 1)) \o LowerCased(SubSeq(s, 2, Len(s)))

\* text.splitlines() of a text whose line ends are "\n"
RECURSIVE splitlines(_)
splitlines(s) ==
    IF Len(s) = 0 THEN <<>>
    ELSE IF ~Contains(s, "\n") THEN <<s>>
    ELSE <<SubSeq(s, 1, Find(s, "\n") - 1)>> \o splitlines(SubSeq(s, Find(s, "\n") + 1, Len(s)))

JsonPunctuation == {"{", "}", "[", "]", ",", ":"}

\* the length of the run of characters up to white space, punctuation or a quote
RECURSIVE RunLength(_)
RunLength(s) ==
    IF Len(s) = 0 \/ CharAt(s, 1) \in Whitespace \cup JsonPunctuation \cup {"\""}
    THEN 0 ELSE 1 + RunLength(SubSeq(s, 2, Len(s)))

\* a bare run of characters: a number token when it is a JSON integer
BareToken(w) ==
    IF AllDigits(w) /\ (Len(w) = 1 \/ CharAt(w, 1) # "0") THEN TokN(NumberOf(w))
    ELSE IF Len(w) > 1 /\ CharAt(w, 1) = "-" /\ AllDigits(SubSeq(w, 2, Len(w)))
            /\ (Len(w) = 2 \/ CharAt(w, 2) # "0")
    THEN TokN(0 - NumberOf(SubSeq(w, 2, Len(w))))
    ELSE TokW(w)

\* the lexical tokens of any text, as the JSON scanner reads it; a string
\* literal ends at the next quote and holds no line end and no backslash
RECURSIVE JsonLex(_)
JsonLex(s) ==
    IF Len(s) = 0 THEN <<>>
    ELSE IF CharAt(s, 1) \in Whitespace THEN JsonLex(SubSeq(s, 2, Len(s)))
    ELSE IF CharAt(s, 1) \in JsonPunctuation
    THEN <<TokP(CharAt(s, 1))>> \o JsonLex(SubSeq(s, 2, Len(s)))
    ELSE IF CharAt(s, 1) = "\""
    THEN \* the closing quote is at k + 1
         LET k == Find(SubSeq(s, 2, Len(s)), "\"")
         IN  IF k = 0 \/ Contains(SubSeq(s, 2, k), "\n") \/ Contains(SubSeq(s, 2, k), "\\")
             THEN <<TokW("\"")>>
             ELSE <<TokS(SubSeq(s, 2, k))>> \o JsonLex(SubSeq(s, k + 2, Len(s)))
    ELSE LET n == RunLength(s)
         IN  <<BareToken(SubSeq(s, 1, n))>> \o JsonLex(SubSeq(s, n + 1, Len(s)))

\* json.loads(s) of any text: Raise when it is not one JSON value
loads(s) ==
    LET toks == JsonLex(s)
        r == ParseValue(toks, 1)
    IN  IF r.ok /\ r.i = Len(toks) + 1 THEN r.v ELSE Raise

\* the three backquotes of a code fence; a string of this module cannot hold
\* the backquote character, so the circumflex stands for it in every text
Fence == "^^^"

\* line.strip().startswith(Fence)
IsFenceLine(line) == startswith(strip(line), Fence)

\* ... and "json" in line.lower()
IsOpeningLine(line) == IsFenceLine(line) /\ HasSubstring(LowerCased(line), "json")

\* an opening line that keeps the lines gathered so far
KeepOpenBlock(cur) == cur

\* cur = [] at an opening line
DropOpenBlock(cur) == <<>>

\* the loop over the lines, from line i on: the blocks collected
RECURSIVE ScanLines(_, _, _, _, _)
ScanLines(lines, i, blocks, cur, in_json) ==
    IF i > Len(lines) THEN blocks
    ELSE IF IsOpeningLine(lines[i])
    THEN ScanLines(lines, i + 1, blocks, DropOpenBlock(cur), TRUE)
    ELSE IF IsFenceLine(lines[i]) /\ in_json
    THEN ScanLines(lines, i + 1,
                   IF Len(cur) > 0 THEN Append(blocks, Join("\n", cur)) ELSE blocks,
                   <<>>, FALSE)
    ELSE IF in_json
    THEN ScanLines(lines, i + 1, blocks, Append(cur, lines[i]), in_json)
    ELSE ScanLines(lines, i + 1, blocks, cur, in_json)

\* the second loop: the values of the blocks that parse, in order
RECURSIVE ParsedBlocks(_)
ParsedBlocks(blocks) ==
    IF Len(blocks) = 0 THEN <<>>
    ELSE (IF IsRaise(loads(Head(blocks))) THEN <<>> ELSE <<loads(Head(blocks))>>)
         \o ParsedBlocks(Tail(blocks))

\* the fallback: the whole text as one block
WithWholeText(blocks, s) ==
    IF Len(blocks) = 0 /\ startswith(strip(s), "{") /\ ~IsRaise(loads(s))
    THEN <<s>> ELSE blocks

_extract_json_blocks(s) ==
    CHOOSE r \in {ParsedBlocks(WithWholeText(blocks, s)) :
                    blocks \in {ScanLines(splitlines(s), 1, <<>>, <<>>, FALSE)}} : TRUE

\* the pieces assistant texts are made of
Segments ==
    {<<"^^^json", "7", "^^^">>,
     <<"^^^json", "{}", "^^^">>,
     <<"  ^^^JSON", "[7]", "^^^">>,
     <<"^^^json", "{", "\"a\": [true, null]", "}", " ^^^">>,
     <<"^^^json", "7">>,
     <<"^^^json", "^^^">>,
     <<"^^^json", "7", "7", "^^^">>,
     <<"^^^js", "-2", "^^^">>,
     <<"{}">>,
     <<" {", "}">>,
     <<"^^^">>,
     <<"Here is the spec:">>,
     <<"">>}

RECURSIVE SegmentSeqs(_)
SegmentSeqs(n) ==
    IF n = 0 THEN {<<>>}
    ELSE SegmentSeqs(n - 1) \cup
         {q \o g : q \in {p \in SegmentSeqs(n - 1) : Len(p) > 0 \/ n = 1}, g \in Segments}

\* assistant texts: up to MaxSegments segments, the lines joined by "\n"
Texts == {Join("\n", q) : q \in SegmentSeqs(MaxSegments)}

InitBlocks ==
    /\ pc = "blocks_given"
    /\ text \in Texts
    /\ parsed = None
    /\ PromptIdle /\ AnalyzeIdle
    /\ StoreIdle /\ UploadIdle /\ UiIdle
    /\ EarlierIdle

ExtractJsonBlocks ==
    /\ pc = "blocks_given"
    /\ pc' = "blocks_parsed"
    /\ parsed' = PyList(_extract_json_blocks(text))
    /\ UNCHANGED <<text, promptVars, analyzeVars, earlierVars, storeVars, uploadVars, uiVars>>

NextBlocks == ExtractJsonBlocks

SpecBlocks == InitBlocks /\ [][NextBlocks]_vars

(* ----------------------------- analyze_images ------------------------- *)

\* the statuses of an assistant run
RunStatuses ==
    {"queued", "in_progress", "cancelling", "completed", "requires_action",
     "cancelled", "failed", "incomplete", "expired"}

\* a loop that leaves a run being cancelled
PollingWithoutCancelling == {"queued", "in_progress"}

\* while run.status in ("queued", "in_progress", "cancelling")
PollingStatuses == {"queued", "in_progress", "cancelling"}

TextPart(value) == [type |-> "text", value |-> value]

ImagePart == [type |-> "image_file", value |-> ""]

Message(role, content) == [role |-> role, content |-> content]

\* part.text.value of the first text item of a message, None when it has none
RECURSIVE FirstTextItem(_)
FirstTextItem(content) ==
    IF Len(content) = 0 THEN None
    ELSE IF Head(content).type = "text" THEN PyStr(Head(content).value)
    ELSE FirstTextItem(Tail(content))

\* the loop over msgs.data: raw after the messages from i on
RECURSIVE RawFrom(_, _, _)
RawFrom(data, i, raw) ==
    IF i > Len(data) THEN raw
    ELSE LET found == IF data[i].role = "assistant" /\ FirstTextItem(data[i].content) # None
                      THEN FirstTextItem(data[i].content) ELSE raw
         IN  IF Truthy(found) THEN found ELSE RawFrom(data, i + 1, found)

Returned2(value) == [kind |-> "return", value |-> value]

RuntimeError(message) == [kind |-> "raise", message |-> message]

\* analyze_images from the listing of the messages on
AfterCompleted(data) ==
    LET raw == RawFrom(data, 1, None)
    IN  IF ~Truthy(raw) THEN RuntimeError("No assistant response found")
        ELSE LET blocks == _extract_json_blocks(raw.s)
             IN  IF Len(blocks) < 2
                 THEN RuntimeError("Could not parse two JSON blocks from assistant output")
                 ELSE Returned2(<<blocks[1], blocks[2]>>)

\* texts an assistant answers with
AssistantTexts ==
    {"^^^json\n7\n^^^\n^^^json\n{}\n^^^",
     "Spec:\n^^^json\n{\"a\": [true, null]}\n^^^",
     "^^^json\n7\n7\n^^^\n  ^^^JSON\n[7]\n^^^\n^^^json\n{}\n^^^",
     "Sorry, I cannot help with that.",
     ""}

ThreadMessages ==
    {Message("user", <<ImagePart>>),
     Message("user", <<TextPart("^^^json\n1\n^^^\n^^^json\n2\n^^^")>>),
     Message("assistant", <<ImagePart>>)}
    \cup {Message("assistant", <<TextPart(t)>>) : t \in AssistantTexts}
    \cup {Message("assistant", <<ImagePart, TextPart("^^^json\n[7]\n^^^\n^^^json\n-2\n^^^")>>)}

RECURSIVE Threads(_)
Threads(n) ==
    IF n = 0 THEN {<<>>}
    ELSE Threads(n - 1) \cup
         {Append(q, m) : q \in {p \in Threads(n - 1) : Len(p) = n - 1}, m \in ThreadMessages}

\* the images are sent and the run is created
InitAnalyze ==
    /\ pc = "analyzing"
    /\ run \in RunStatuses
    /\ polls = 0
    /\ msgs = <<>>
    /\ analysis = [kind |-> "none"]
    /\ PromptIdle /\ BlocksIdle
    /\ StoreIdle /\ UploadIdle /\ UiIdle
    /\ EarlierIdle

\* one turn of the loop: the status is retrieved again
PollRun ==
    /\ pc = "analyzing"
    /\ run \in PollingStatuses
    /\ polls < MaxPolls
    /\ polls' = polls + 1
    /\ run' \in RunStatuses
    /\ UNCHANGED <<msgs, analysis, pc, promptVars, blocksVars,
                   earlierVars, storeVars, uploadVars, uiVars>>

\* the loop is left with a status other than "completed"
RunFailed ==
    /\ pc = "analyzing"
    /\ run \notin PollingStatuses
    /\ run # "completed"
    /\ analysis' = RuntimeError("Assistant run failed: " \o run)
    /\ pc' = "analyzed"
    /\ UNCHANGED <<run, polls, msgs, promptVars, blocksVars,
                   earlierVars, storeVars, uploadVars, uiVars>>

\* the loop is left with "completed": the messages are listed and read
RunCompleted ==
    /\ pc = "analyzing"
    /\ run \notin PollingStatuses
    /\ run = "completed"
    /\ \E data \in Threads(MaxMessages) :
          /\ msgs' = data
          /\ \E r \in {AfterCompleted(data)} : analysis' = r
    /\ pc' = "analyzed"
    /\ UNCHANGED <<run, polls, promptVars, blocksVars,
                   earlierVars, storeVars, uploadVars, uiVars>>

NextAnalyze == PollRun \/ RunFailed \/ RunCompleted

SpecAnalyze == InitAnalyze /\ [][NextAnalyze]_vars

(* ------------------------------ the page ------------------------------ *)

\* the search results on the page: normalized records, one of them with a
\* page name that is a list and so cannot be stored
CurrentAds ==
    {extract_selected_fields(it) :
        it \in {PyDict([ad_archive_id |-> PyStr("1"), page_name |-> PyStr("P")]),
                PyDict([ad_archive_id |-> PyStr("2"), page_name |-> PyList(<<PyStr("Q")>>)])}}

\* what the user types as the name of a new collection
TypedNames == {"", "My Ads!"}

\* the selections a bulk save starts from
Selections == {<<ad>> : ad \in CurrentAds} \cup {<<a, b>> : a, b \in CurrentAds}

\* a save modal that closes whatever the save returned
ModalClosedAfterSave(success, ad) == None

\* save_modal_ad after a save: None on success, else as it was
ModalAfterSave(success, ad) == IF success THEN None ELSE ad

\* the loop of the bulk save: the tables after saving the ads from i on
RECURSIVE SaveAll(_, _, _, _, _)
SaveAll(tbls, table_name, ads, i, t) ==
    IF i > Len(ads) THEN tbls
    ELSE SaveAll(save_ad_to_table(tbls, table_name, ads[i], "", t).tables,
                 table_name, ads, i + 1, t)

InitPage ==
    /\ pc = "page"
    /\ UiIdle
    /\ StoreIdle
    /\ UploadIdle
    /\ EngineIdle
    /\ EarlierIdle

\* a run of main while save_modal_ad is set: lines 795-855
RunSaveModal ==
    /\ pc = "page"
    /\ runs < MaxRuns
    /\ Truthy(save_modal_ad)
    /\ runs' = runs + 1
    /\ rendered' = "save_sidebar"
    /\ \/ \* no button was pressed
          /\ event' = [widget |-> "none", message |-> ""]
          /\ UNCHANGED <<save_modal_ad, storeVars>>
       \/ \* Create & Save
          \E new_name \in TypedNames, new_desc \in Descriptions :
             IF new_name = ""
             THEN /\ event' = [widget |-> "create_and_save",
                               message |-> "Please enter a collection name"]
                  /\ UNCHANGED <<save_modal_ad, storeVars>>
             ELSE \E c \in {create_ads_table(tables, ad_tables, new_name, new_desc, now)} :
                  \E r \in {save_ad_to_table(c.tables, c.value, save_modal_ad, "", now)} :
                     /\ tables' = r.tables
                     /\ ad_tables' = c.ad_tables
                     /\ store_ret' = [op |-> "save_ad_to_table", value |-> r.value,
                                      table_name |-> c.value, ad_data |-> save_modal_ad]
                     /\ calls' = calls + 2
                     /\ now' = IF r.value[1] THEN now + 1 ELSE now
                     /\ event' = [widget |-> "create_and_save", message |-> r.value[2]]
                     /\ save_modal_ad' = ModalAfterSave(r.value[1], save_modal_ad)
       \/ \* Save to Collection, offered when a collection is registered
          \E selected \in get_available_tables :
          \E r \in {save_ad_to_table(tables, selected.table_name, save_modal_ad, "", now)} :
             /\ tables' = r.tables
             /\ store_ret' = [op |-> "save_ad_to_table", value |-> r.value,
                              table_name |-> selected.table_name, ad_data |-> save_modal_ad]
             /\ calls' = calls + 1
             /\ now' = IF r.value[1] THEN now + 1 ELSE now
             /\ event' = [widget |-> "save_to_collection", message |-> r.value[2]]
             /\ save_modal_ad' = ModalAfterSave(r.value[1], save_modal_ad)
             /\ UNCHANGED ad_tables
       \/ \* Cancel
          /\ event' = [widget |-> "cancel", message |-> ""]
          /\ save_modal_ad' = None
          /\ UNCHANGED storeVars
    /\ UNCHANGED <<pending_save_ads, pc, earlierVars, uploadVars, engineVars>>

\* a run of main while only pending_save_ads is set: lines 858-923
RunBulkModal ==
    /\ pc = "page"
    /\ runs < MaxRuns
    /\ ~Truthy(save_modal_ad)
    /\ Truthy(pending_save_ads)
    /\ runs' = runs + 1
    /\ rendered' = "bulk_modal"
    /\ \/ /\ event' = [widget |-> "none", message |-> ""]
          /\ UNCHANGED <<pending_save_ads, storeVars>>
       \/ \* Create & Save All
          \E bname \in TypedNames, bdesc \in Descriptions :
             IF bname = ""
             THEN /\ event' = [widget |-> "bulk_create_and_save",
                               message |-> "Please provide a collection name"]
                  /\ UNCHANGED <<pending_save_ads, storeVars>>
             ELSE \E c \in {create_ads_table(tables, ad_tables, bname, bdesc, now)} :
                     /\ tables' = SaveAll(c.tables, c.value, pending_save_ads.q, 1, now)
                     /\ ad_tables' = c.ad_tables
                     /\ store_ret' = [op |-> "create_ads_table", value |-> c.value]
                     /\ calls' = calls + 1 + Len(pending_save_ads.q)
                     /\ now' = now + 1
                     /\ event' = [widget |-> "bulk_create_and_save", message |-> "Saved"]
                     /\ pending_save_ads' = None
       \/ \* Save All to Selected Collection
          \E selected \in get_available_tables :
             /\ tables' = SaveAll(tables, selected.table_name, pending_save_ads.q, 1, now)
             /\ calls' = calls + Len(pending_save_ads.q)
             /\ now' = now + 1
             /\ event' = [widget |-> "bulk_save_to_existing", message |-> "Saved"]
             /\ pending_save_ads' = None
             /\ UNCHANGED <<ad_tables, store_ret>>
       \/ \* Cancel
          /\ event' = [widget |-> "bulk_cancel", message |-> ""]
          /\ pending_save_ads' = None
          /\ UNCHANGED storeVars
    /\ UNCHANGED <<save_modal_ad, pc, earlierVars, uploadVars, engineVars>>

\* a run of main with no modal open: the navigation and the chosen page
RunPage ==
    /\ pc = "page"
    /\ runs < MaxRuns
    /\ ~Truthy(save_modal_ad)
    /\ ~Truthy(pending_save_ads)
    /\ runs' = runs + 1
    /\ rendered' = "navigation"
    /\ \/ /\ event' = [widget |-> "none", message |-> ""]
          /\ UNCHANGED <<save_modal_ad, pending_save_ads>>
       \/ \* the Save button of an ad card
          \E ad \in CurrentAds :
             /\ event' = [widget |-> "save_btn", message |-> ""]
             /\ save_modal_ad' = ad
             /\ UNCHANGED pending_save_ads
       \/ \* Save Selected, with at least one ad ticked
          \E selected \in Selections :
             /\ event' = [widget |-> "save_selected", message |-> ""]
             /\ pending_save_ads' = PyList(selected)
             /\ UNCHANGED save_modal_ad
    /\ UNCHANGED <<pc, storeVars, earlierVars, uploadVars, engineVars>>

NextPage == RunSaveModal \/ RunBulkModal \/ RunPage

SpecPage == InitPage /\ [][NextPage]_vars

(* ------------------------------- claims -------------------------------- *)

Extracted == pc = "extracted"

FieldNames ==
    {"ad_archive_id", "categories", "collation_count", "collation_id", "start_date",
     "end_date", "entity_type", "is_active", "page_id", "page_name", "cta_text",
     "cta_type", "link_url", "display_url", "website_url", "page_entity_type",
     "page_profile_picture_url", "page_profile_uri", "state_media_run_label",
     "total_active_time", "original_image_url", "video_url"}

\* C1: extract_selected_fields never raises, whatever shape snapshot, images,
\* videos, cards, page_categories and categories take: the extraction of
\* every raw item ends with a record, and an item with no snapshot key is
\* unwrapped to the empty mapping.
C1_NeverRaises ==
    /\ pc # "raised"
    /\ Extracted => IsDict(record)
    /\ (Extracted /\ "snapshot" \notin DOMAIN item.f) => locals.snap = EmptyDict

C1_Witness ==
    /\ Extracted
    /\ "snapshot" \notin DOMAIN item.f
    /\ locals.snap = EmptyDict
    /\ IsDict(record)

\* C2: the record returned for any raw item has exactly the 22 fixed keys,
\* each present even when its value is null.
C2_FixedKeys ==
    Extracted => /\ IsDict(record)
                 /\ DOMAIN record.f = FieldNames
                 /\ Cardinality(DOMAIN record.f) = 22

C2_Witness ==
    /\ Extracted
    /\ DOMAIN record.f = FieldNames
    /\ \E k \in FieldNames : record.f[k] = None
    /\ \E k \in FieldNames : record.f[k] # None

\* C3: the unwrapped snapshot is always a mapping: item.snapshot itself when
\* that is a mapping, the parsed value when it is a string that parses as
\* JSON to a mapping, and the empty mapping in every other case.
C3_UnwrapSnapshot ==
    pc # "fetched" =>
        LET s == Get(item, "snapshot")
        IN  /\ IsDict(locals.snap)
            /\ IsDict(s) => locals.snap = s
            /\ (IsStr(s) /\ IsDict(json_loads(s.s))) => locals.snap = json_loads(s.s)
            /\ (~IsDict(s) /\ ~(IsStr(s) /\ IsDict(json_loads(s.s))))
                   => locals.snap = EmptyDict

C3_Witness ==
    /\ Extracted
    /\ IsStr(Get(item, "snapshot"))
    /\ locals.snap # EmptyDict
    /\ locals.snap = json_loads(Get(item, "snapshot").s)

SubStructures == {"images", "videos", "cards", "page_categories"}

\* the output fields derived from a sub-structure of the snapshot
DerivedFrom(sub) ==
    CASE sub = "images" -> {"original_image_url"}
      [] sub = "videos" -> {"video_url"}
      [] sub = "cards" -> {"cta_text", "cta_type", "link_url"}
      [] sub = "page_categories" -> {"page_entity_type"}

\* the item with snapshot[k] set to v, and with snapshot[k] removed
WithSnapKey(it, k, v) ==
    PyDict(("snapshot" :> PyDict((k :> v) @@ it.f["snapshot"].f)) @@ it.f)

WithoutSnapKey(it, k) ==
    LET sf == it.f["snapshot"].f
    IN  PyDict(("snapshot" :> PyDict([x \in DOMAIN sf \ {k} |-> sf[x]])) @@ it.f)

\* C4: a malformed sub-structure affects only the fields derived from it:
\* replacing snapshot.images, videos, cards or page_categories by a
\* wrongly-typed value gives the same record as removing it, and leaves
\* every field not derived from it as it was.
C4_MalformedIsolated ==
    (Extracted /\ IsDict(Get(item, "snapshot"))) =>
        \A sub \in SubStructures :
            LET gone == extract_selected_fields(WithoutSnapKey(item, sub))
            IN  /\ IsDict(gone)
                /\ \A k \in FieldNames \ DerivedFrom(sub) : gone.f[k] = record.f[k]
                /\ \A w \in WrongTyped :
                       extract_selected_fields(WithSnapKey(item, sub, w)) = gone

C4_Witness ==
    /\ Extracted
    /\ Get(locals.snap, "images") \in WrongTyped
    /\ "images" \in DOMAIN locals.snap.f
    /\ record.f["original_image_url"] = None
    /\ Truthy(record.f["video_url"])
    /\ Truthy(record.f["cta_text"])

\* C5: ad_archive_id, page_id, page_name, start_date and end_date are the
\* snake_case item value when it is truthy and otherwise the camelCase
\* synonym: a falsy snake_case value never shadows the camelCase one and a
\* truthy snake_case value always wins.
C5_SnakeThenCamel ==
    Extracted =>
        \A i \in 1..Len(PairKeys) :
            LET snake == Get(item, PairKeys[i][1])
                camel == Get(item, PairKeys[i][2])
            IN  record.f[PairKeys[i][1]] = IF Truthy(snake) THEN snake ELSE camel

C5_Witness ==
    /\ Extracted
    /\ Get(item, "page_id") = PyStr("")
    /\ Get(item, "pageId") = PyStr("B")
    /\ record.f["page_id"] = PyStr("B")

\* C6: entity_type, is_active, collation_count, collation_id,
\* state_media_run_label and total_active_time equal the item's value for
\* the same key, with no fallback and no truthiness test (false stays false,
\* 0 stays 0), and an absent key gives null.
C6_PassThrough ==
    Extracted =>
        \A k \in PassKeys :
            record.f[k] = IF k \in DOMAIN item.f THEN item.f[k] ELSE None

C6_Witness ==
    /\ Extracted
    /\ record.f["is_active"] = PyBool(FALSE)
    /\ record.f["collation_count"] = PyInt(0)
    /\ "collation_id" \notin DOMAIN item.f
    /\ record.f["collation_id"] = None

\* the texts of q joined with ", ", built from the last element backwards
RECURSIVE JoinedInOrder(_)
JoinedInOrder(q) ==
    IF Len(q) = 0 THEN ""
    ELSE IF Len(q) = 1 THEN str(q[1])
    ELSE JoinedInOrder(SubSeq(q, 1, Len(q) - 1)) \o ", " \o str(q[Len(q)])

\* C7: categories is the elements of item.categories joined with ", " in
\* their original order when item.categories is a sequence, and
\* item.categories unchanged when it is anything else.
C7_Categories ==
    Extracted =>
        LET c == Get(item, "categories")
        IN  /\ IsList(c) => record.f["categories"] = PyStr(JoinedInOrder(c.q))
            /\ ~IsList(c) => record.f["categories"] = c
            /\ c = PyList(<<PyStr("Apparel"), PyStr("Retail")>>)
                   => record.f["categories"] = PyStr("Apparel, Retail")

C7_Witness ==
    /\ Extracted
    /\ Get(item, "categories") = PyList(<<PyStr("Apparel"), PyStr("Retail")>>)
    /\ record.f["categories"] = PyStr("Apparel, Retail")

\* C8: cta_text and cta_type take the first card's value when a first card
\* exists and that value is truthy, and otherwise the snapshot's own value.
C8_CardOverridesSnapshot ==
    Extracted =>
        \A k \in {"cta_text", "cta_type"} :
            LET card == locals.card0
                own == Get(locals.snap, k)
            IN  record.f[k] = IF card # None /\ Truthy(Get(card, k)) THEN Get(card, k) ELSE own

C8_Witness ==
    /\ Extracted
    /\ locals.card0 # None
    /\ Truthy(Get(locals.card0, "cta_text"))
    /\ Truthy(Get(locals.snap, "cta_text"))
    /\ Get(locals.card0, "cta_text") # Get(locals.snap, "cta_text")
    /\ record.f["cta_text"] = Get(locals.card0, "cta_text")

\* C9: link_url is snapshot.link_url when that is truthy; the first card's
\* link_url is used only when snapshot.link_url is falsy and a first card
\* exists.
C9_SnapshotLinkFirst ==
    Extracted =>
        LET own == Get(locals.snap, "link_url")
            card == locals.card0
        IN  /\ Truthy(own) => record.f["link_url"] = own
            /\ (~Truthy(own) /\ card # None) => record.f["link_url"] = Get(card, "link_url")
            /\ (~Truthy(own) /\ card = None) => record.f["link_url"] = own

C9_Witness ==
    /\ Extracted
    /\ locals.card0 # None
    /\ Truthy(Get(locals.card0, "link_url"))
    /\ Truthy(Get(locals.snap, "link_url"))
    /\ Get(locals.card0, "link_url") # Get(locals.snap, "link_url")
    /\ record.f["link_url"] = Get(locals.snap, "link_url")

\* element 0 of a non-empty list when it is a mapping, a mapping itself,
\* and nothing in every other shape
FirstOf(v) ==
    CASE v.t = "list" -> IF Len(v.q) > 0 /\ v.q[1].t = "dict" THEN v.q[1] ELSE None
      [] v.t = "dict" -> v
      [] OTHER -> None

\* C10: the first card is element 0 of snapshot.cards when that is a
\* non-empty sequence whose element 0 is a mapping, cards itself when it is
\* a mapping, and no card otherwise; snapshot.page_categories is resolved
\* the same way and its page_entity_type falls back to the item's.
C10_FirstElement ==
    Extracted =>
        /\ locals.card0 = FirstOf(Get(locals.snap, "cards"))
        /\ locals.pgcat0 = FirstOf(Get(locals.snap, "page_categories"))
        /\ LET pg == FirstOf(Get(locals.snap, "page_categories"))
               own == Get(item, "page_entity_type")
           IN  record.f["page_entity_type"] =
                   IF pg # None /\ Truthy(Get(pg, "page_entity_type"))
                   THEN Get(pg, "page_entity_type") ELSE own

C10_Witness ==
    /\ Extracted
    /\ IsList(Get(locals.snap, "cards"))
    /\ Len(Get(locals.snap, "cards").q) > 1
    /\ ~IsDict(Get(locals.snap, "cards").q[1])
    /\ IsDict(Get(locals.snap, "cards").q[2])
    /\ locals.card0 = None

MediaMappings == {Img1, Img2, Img3, Img4, Vid1, Vid2, Vid3, Vid4, EmptyDict}

\* the image and video URLs of a record
MediaOf(it) ==
    LET r == extract_selected_fields(it)
    IN  IF IsDict(r) THEN <<r.f["original_image_url"], r.f["video_url"]>> ELSE <<Raise, Raise>>

\* C11: for every mapping m the image resolver gives the same result for
\* snapshot.images = m as for snapshot.images = [m], and the video resolver
\* the same result for snapshot.videos = m as for snapshot.videos = [m].
C11_SingletonWrapping ==
    (Extracted /\ IsDict(Get(item, "snapshot"))) =>
        /\ \A m \in MediaMappings, sub \in {"images", "videos"} :
               MediaOf(WithSnapKey(item, sub, m)) = MediaOf(WithSnapKey(item, sub, PyList(<<m>>)))
        /\ MediaOf(WithSnapKey(item, "images", Img1))[1] = PyStr("U1")
        /\ MediaOf(WithSnapKey(item, "videos", Vid1))[2] = PyStr("VU1")

C11_Witness ==
    /\ Extracted
    /\ Get(locals.snap, "images") = Img1
    /\ record.f["original_image_url"] = PyStr("U1")
    /\ MediaOf(WithSnapKey(item, "images", PyList(<<Img1>>)))[1] = PyStr("U1")

\* the elements of a media value: a lone mapping is one element, a list is
\* its elements, anything else has none
ElementsOf(v) ==
    CASE v.t = "dict" -> <<v>>
      [] v.t = "list" -> v.q
      [] OTHER -> <<>>

\* the value of the first key of keys that is truthy in mapping d
FirstTruthyKey(d, keys) ==
    LET js == {j \in 1..Len(keys) : Truthy(Get(d, keys[j]))}
    IN  Get(d, keys[CHOOSE j \in js : \A g \in js : j <= g])

\* element-major search: the earliest element that is a mapping with a
\* truthy candidate key decides, by key priority; None when there is none
ElementMajor(q, keys) ==
    LET is == {i \in 1..Len(q) : q[i].t = "dict" /\ \E j \in 1..Len(keys) : Truthy(Get(q[i], keys[j]))}
    IN  IF is = {} THEN None
        ELSE FirstTruthyKey(q[CHOOSE i \in is : \A g \in is : i <= g], keys)

\* C12: the structural image search is element-major: the earliest element
\* of snapshot.images with any truthy candidate key decides, by the key
\* priority original_image_url, original_picture_url, original_picture,
\* url, src; non-mapping elements and elements with no candidate are
\* skipped.
C12_ImageElementMajor ==
    Extracted =>
        locals.nested_image =
            ElementMajor(ElementsOf(Get(locals.snap, "images")),
                         <<"original_image_url", "original_picture_url",
                           "original_picture", "url", "src">>)

C12_Witness ==
    /\ Extracted
    /\ Get(locals.snap, "images") = PyList(<<Img1, Img2>>)
    /\ locals.nested_image = PyStr("U1")
    /\ record.f["original_image_url"] = PyStr("U1")

\* C13: original_image_url uses the item keys imageUrl, image_url,
\* thumbnailUrl, thumbnail_url, image (first truthy, in that order) only
\* when the search over snapshot.images finds nothing; a nested value wins
\* over a top-level one, and the result is null when neither gives a value.
C13_TopLevelImageFallback ==
    Extracted =>
        LET keys == <<"imageUrl", "image_url", "thumbnailUrl", "thumbnail_url", "image">>
            anyTop == \E j \in 1..Len(keys) : Truthy(Get(item, keys[j]))
        IN  record.f["original_image_url"] =
                IF Truthy(locals.nested_image) THEN locals.nested_image
                ELSE IF anyTop THEN FirstTruthyKey(item, keys)
                ELSE None

C13_Witness ==
    /\ Extracted
    /\ Truthy(locals.nested_image)
    /\ Truthy(Get(item, "imageUrl"))
    /\ Get(item, "imageUrl") # locals.nested_image
    /\ record.f["original_image_url"] = locals.nested_image

\* C14: video_url step 1 scans snapshot.videos element by element and takes
\* the first truthy value among video_hd_url, video_sd_url,
\* video_preview_url, url, src of the earliest element that has one; such a
\* hit is never replaced by a top-level or snapshot-level video key.
C14_VideoElementMajor ==
    Extracted =>
        /\ locals.nested_video =
               ElementMajor(ElementsOf(Get(locals.snap, "videos")),
                            <<"video_hd_url", "video_sd_url", "video_preview_url", "url", "src">>)
        /\ Truthy(locals.nested_video) => record.f["video_url"] = locals.nested_video

C14_Witness ==
    /\ Extracted
    /\ Get(locals.snap, "videos") = PyList(<<Vid1, Vid2>>)
    /\ Truthy(Get(item, "videoUrl"))
    /\ Truthy(Get(locals.snap, "videoUrl"))
    /\ record.f["video_url"] = PyStr("VU1")

\* the interleaved order of the video fallback: <<place, key>>
VideoFallbackOrder ==
    <<<<"item", "videoUrl">>, <<"snapshot", "videoUrl">>,
      <<"item", "video_url">>, <<"snapshot", "video_url">>,
      <<"item", "video">>, <<"snapshot", "video">>,
      <<"item", "video_hd_url">>, <<"snapshot", "video_hd_url">>,
      <<"item", "video_sd_url">>, <<"snapshot", "video_sd_url">>>>

\* C15: when snapshot.videos yields nothing, video_url is the first truthy
\* value of the interleaved scan item.videoUrl, snapshot.videoUrl,
\* item.video_url, snapshot.video_url, ... : key order dominates location;
\* null when none is truthy.
C15_VideoFallbackInterleaved ==
    (Extracted /\ ~Truthy(locals.nested_video)) =>
        LET at(n) == Get(IF VideoFallbackOrder[n][1] = "item" THEN item ELSE locals.snap,
                         VideoFallbackOrder[n][2])
            ns == {n \in 1..Len(VideoFallbackOrder) : Truthy(at(n))}
        IN  record.f["video_url"] =
                IF ns = {} THEN None ELSE at(CHOOSE n \in ns : \A g \in ns : n <= g)

C15_Witness ==
    /\ Extracted
    /\ ~Truthy(locals.nested_video)
    /\ Get(item, "video_url") = PyStr("IV2")
    /\ Get(locals.snap, "videoUrl") = PyStr("SV1")
    /\ record.f["video_url"] = PyStr("SV1")

\* C19: extract_selected_fields applied to its own output, a record used as a
\* raw item without a snapshot, never raises and again returns a dict with
\* the 22 fixed keys.
C19_RenormalizeNeverRaises ==
    pc \in {"renormalized", "reraised"} =>
        /\ pc = "renormalized"
        /\ IsDict(again)
        /\ DOMAIN again.f = FieldNames
        /\ Cardinality(DOMAIN again.f) = 22

C19_Witness ==
    /\ pc = "renormalized"
    /\ "snapshot" \notin DOMAIN record.f
    /\ Truthy(Get(record, "cta_text"))
    /\ Get(again, "cta_text") = None
    /\ DOMAIN again.f = FieldNames

ProfileKeys == {"page_profile_picture_url", "page_profile_uri"}

\* C28: for the two-candidate fields, when no candidate is truthy the output
\* is the raw value of the last candidate (the camelCase item key, or the
\* snapshot key for the profile fields), null only when that key is absent:
\* a falsy but present last candidate is emitted as it is.
C28_LastCandidateAsIs ==
    Extracted =>
        /\ \A i \in 1..Len(PairKeys) :
              LET snake == PairKeys[i][1]
                  camel == PairKeys[i][2]
              IN  ~Truthy(Get(item, snake)) /\ ~Truthy(Get(item, camel)) =>
                      record.f[snake] =
                          IF camel \in DOMAIN item.f THEN item.f[camel] ELSE None
        /\ \A k \in ProfileKeys :
              ~Truthy(Get(item, k)) /\ ~Truthy(Get(locals.snap, k)) =>
                  record.f[k] =
                      IF k \in DOMAIN locals.snap.f THEN locals.snap.f[k] ELSE None

C28_Witness ==
    /\ Extracted
    /\ Get(item, "page_id") = PyStr("")
    /\ Get(item, "pageId") = PyInt(0)
    /\ record.f["page_id"] = PyInt(0)

KeptAsIs == {"categories"} \cup PassKeys

KeptWhenTruthy ==
    {"ad_archive_id", "page_id", "page_name", "start_date", "end_date", "page_entity_type",
     "page_profile_picture_url", "page_profile_uri", "video_url"}

LostFields ==
    {"cta_text", "cta_type", "link_url", "display_url", "website_url", "original_image_url"}

\* C29: re-normalizing a record r keeps categories and the pass-through
\* fields as they are, keeps every truthy value of the two-candidate fields,
\* of page_entity_type and of video_url, and gives null for cta_text,
\* cta_type, link_url, display_url, website_url and original_image_url
\* whatever they were in r.
C29_RenormalizeKeepsTopLevel ==
    pc \in {"renormalized", "reraised"} =>
        /\ IsDict(again)
        /\ \A k \in KeptAsIs : Get(again, k) = record.f[k]
        /\ \A k \in KeptWhenTruthy : Truthy(record.f[k]) => Get(again, k) = record.f[k]
        /\ \A k \in LostFields : Get(again, k) = None

C29_Witness ==
    /\ pc = "renormalized"
    /\ Truthy(record.f["original_image_url"])
    /\ again.f["original_image_url"] = None
    /\ Truthy(record.f["video_url"])
    /\ again.f["video_url"] = record.f["video_url"]
    /\ Truthy(record.f["categories"])
    /\ again.f["categories"] = record.f["categories"]

(* ------------------------ claims on the date filter -------------------- *)

DateChecked == pc = "date_checked"

\* a day count that grows with the calendar
Ordinal(d) == d.y * 372 + d.m * 31 + d.d

\* start <= d <= end, both ends included
Within(d) == Ordinal(range.start) <= Ordinal(d) /\ Ordinal(d) <= Ordinal(range.end)

\* the texts of the inputs that are written without zero padding
Unpadded ==
    {<<"2024-3-15", Date(2024, 3, 15)>>, <<"2024-1-1", Date(2024, 1, 1)>>,
     <<"2024-12-5", Date(2024, 12, 5)>>}

\* the calendar dates the text v stands for (none when v is no date)
DatesDenoted(v) ==
    {d \in Dates : \/ v = PyStr(DateText(d))
                   \/ \E sfx \in TimeSuffixes : v = PyStr(DateText(d) \o sfx)}
    \cup {u[2] : u \in {w \in Unpadded : v = PyStr(w[1])}}

\* C16: is_date_in_range never raises; it returns false only for a non-empty
\* text that parses to a date outside [start, end]; a null or empty text and
\* every text that fails to parse (such as "not-a-date") give true.
C16_BiasedTowardInclusion ==
    DateChecked =>
        /\ verdict \in {PyBool(TRUE), PyBool(FALSE)}
        /\ verdict = PyBool(FALSE) =>
              /\ IsStr(date_str) /\ date_str.s # ""
              /\ \E d \in DatesDenoted(date_str) : ~Within(d)
        /\ date_str \in {None, PyStr("")} => verdict = PyBool(TRUE)
        /\ DatesDenoted(date_str) = {} => verdict = PyBool(TRUE)

C16_Witness ==
    /\ DateChecked
    /\ date_str = PyStr("not-a-date")
    /\ verdict = PyBool(TRUE)

\* C17: for a plain YYYY-MM-DD text of the date d the verdict is exactly
\* start <= d <= end with both ends inclusive.
C17_InclusiveBounds ==
    DateChecked =>
        \A d \in Dates :
            date_str = PyStr(DateText(d)) => verdict = PyBool(Within(d))

C17_Witness ==
    /\ DateChecked
    /\ date_str = PyStr("2024-12-31")
    /\ range = [start |-> Date(2024, 1, 1), end |-> Date(2024, 12, 31)]
    /\ verdict = PyBool(TRUE)

\* C18: an ISO-8601 date-time text (a T, an optional trailing Z or offset) is
\* judged by its calendar date alone: its verdict equals the verdict of the
\* date-only text of the same date, for every date, time of day and range.
C18_DateTimeByCalendarDate ==
    DateChecked =>
        \A d \in Dates, sfx \in TimeSuffixes :
            date_str = PyStr(DateText(d) \o sfx) =>
                /\ verdict = is_date_in_range(PyStr(DateText(d)), range.start, range.end)
                /\ verdict = PyBool(Within(d))

C18_Witness ==
    /\ DateChecked
    /\ date_str = PyStr("2025-01-01T10:00:00Z")
    /\ range = [start |-> Date(2024, 1, 1), end |-> Date(2024, 12, 31)]
    /\ verdict = PyBool(FALSE)

(* --------------------------- claims on the scrape ---------------------- *)

\* the normalized records of the first n fetched items, in fetch order
RecordsOf(n) == [i \in 1..n |-> extract_selected_fields(items[i])]

RangeGiven == range.start # None /\ range.end # None

\* the range filter accepts the record's start date
Accepted(rec) ==
    is_date_in_range(Get(rec, "start_date"), range.start, range.end) = PyBool(TRUE)

\* C20: the scrape normalizes every fetched item; with both start_date and
\* end_date it keeps exactly the records whose start_date the range filter
\* accepts (a record without start_date is kept), in fetch order; without a
\* range it returns every normalized record, in order.
C20_ScrapeFiltersInOrder ==
    pc \in {"looping", "returned"} =>
        /\ pc = "returned" => idx = Len(items) + 1
        /\ processed_items =
               IF RangeGiven THEN SelectSeq(RecordsOf(idx - 1), Accepted)
               ELSE RecordsOf(idx - 1)
        /\ \A i \in 1..(idx - 1) :
               RangeGiven /\ Get(RecordsOf(idx - 1)[i], "start_date") = None =>
                   \E j \in 1..Len(processed_items) :
                       processed_items[j] = RecordsOf(idx - 1)[i]

C20_Witness ==
    /\ pc = "returned"
    /\ range = [start |-> Date(2024, 1, 1), end |-> Date(2024, 12, 31)]
    /\ Len(items) = 2
    /\ Get(RecordsOf(2)[1], "start_date") = PyStr("2023-12-31")
    /\ Get(RecordsOf(2)[2], "start_date") = None
    /\ processed_items = <<RecordsOf(2)[2]>>

(* --------------------------- claims on the store ----------------------- *)

\* C21: a collection is keyed by ad_archive_id with insert-if-absent: a save
\* whose ad_archive_id, whatever its value, is already held by a row of the
\* collection returns (False, "Ad already exists in this collection") and
\* changes nothing, so no two rows of a collection share an ad_archive_id.
C21_InsertIfAbsent ==
    pc = "store" =>
        \A n \in DOMAIN tables :
            \A r1, r2 \in tables[n].rows :
                r1.cols["ad_archive_id"] = r2.cols["ad_archive_id"] => r1 = r2

\* C22: every create_ads_table call returns a name that named no collection
\* before the call, and creates a new empty table under it.
C22_FreshCollection ==
    [][calls' = calls + 1 /\ store_ret'.op = "create_ads_table" =>
          /\ store_ret'.value \notin DOMAIN tables
          /\ store_ret'.value \in DOMAIN tables'
          /\ tables'[store_ret'.value].rows = {}]_vars

\* C26: the registry lists exactly the collections that exist, one row each:
\* get_available_tables never returns a name whose table is gone and never
\* omits an existing collection.
C26_RegistryMatchesTables ==
    pc = "store" =>
        /\ {r.table_name : r \in get_available_tables} = DOMAIN tables
        /\ \A r1, r2 \in get_available_tables : r1.table_name = r2.table_name => r1 = r2

C26_Witness ==
    /\ pc = "store"
    /\ store_ret.op = "delete_table"
    /\ store_ret.value \notin DOMAIN tables
    /\ store_ret.value \notin {r.table_name : r \in ad_tables}
    /\ Cardinality(DOMAIN tables) = 1
    /\ calls = 3

(* -------------------------- claims on the uploads ---------------------- *)

\* the rows of the uploads table that hold the content data
RowsHolding(rows, data) == {r \in rows : r.data = data}

\* C23: a save_uploaded_image call with content that is already stored adds
\* no row and returns the id of the existing row; after every call the table
\* holds at most one row per content and the id returned is that of the one
\* row holding the content.
C23_DedupByContent ==
    [][upload_call'.op = "save_uploaded_image" /\ <<uploads, upload_call, upload_id>>' # <<uploads, upload_call, upload_id>> =>
          /\ RowsHolding(uploads.rows, upload_call'.data) # {} =>
                /\ uploads' = uploads
                /\ \E r \in RowsHolding(uploads.rows, upload_call'.data) : upload_id' = PyInt(r.id)
          /\ \A data \in Contents : Cardinality(RowsHolding(uploads'.rows, data)) <= 1
          /\ \E r \in RowsHolding(uploads'.rows, upload_call'.data) : upload_id' = PyInt(r.id)]_vars

\* a second upload of stored content, under another file name, got the first row's id
C23_Witness ==
    /\ pc = "uploads"
    /\ upload_call.op = "save_uploaded_image"
    /\ Cardinality(uploads.rows) = 2
    /\ \E r \in uploads.rows :
          /\ r.data = upload_call.data
          /\ r.filename # upload_call.filename
          /\ upload_id = PyInt(r.id)
          /\ r.id < uploads.seq

(* ------------------------- claims on the engine ------------------------ *)

\* C24: for every base specification and variant, the text build_prompt_text
\* returns is exactly the text generate_single_variant_image sends to the
\* image model as its prompt.
C24_SamePromptText ==
    pc = "prompt" /\ prompt_text # None /\ preview_text # None =>
        preview_text = prompt_text

\* what the claim calls a line starting with the fence: read to the letter
\* (as_written), or after stripping the white space around the line
ClaimedFence(line, as_written) ==
    startswith(IF as_written THEN line ELSE strip(line), Fence)

\* ... and containing "json": to the letter, or in any letter case
ClaimedOpening(line, as_written) ==
    /\ ClaimedFence(line, as_written)
    /\ HasSubstring(IF as_written THEN line ELSE LowerCased(line), "json")

\* the lines that close the block opened at line i with at least one line in
\* it: the next fence line after i, when it does not open a block itself
ClosingLines(lines, i, as_written) ==
    {j \in (i + 2)..Len(lines) :
        /\ ClaimedFence(lines[j], as_written)
        /\ ~ClaimedOpening(lines[j], as_written)
        /\ \A k \in (i + 1)..(j - 1) : ~ClaimedFence(lines[k], as_written)}

\* the texts of the closed, non-empty blocks opened at line i or later
RECURSIVE ClaimedBlocks(_, _, _)
ClaimedBlocks(lines, i, as_written) ==
    IF i > Len(lines) THEN <<>>
    ELSE (IF ClaimedOpening(lines[i], as_written) /\ ClosingLines(lines, i, as_written) # {}
          THEN <<Join("\n", SubSeq(lines, i + 1,
                                   (CHOOSE j \in ClosingLines(lines, i, as_written) : TRUE) - 1))>>
          ELSE <<>>)
         \o ClaimedBlocks(lines, i + 1, as_written)

IsValue(v) == ~IsRaise(v)

\* the result the claim describes for the text s
ClaimedResult(s, as_written) ==
    LET blocks == ClaimedBlocks(splitlines(s), 1, as_written)
    IN  IF /\ blocks = <<>>
           /\ startswith(IF as_written THEN s ELSE strip(s), "{")
           /\ IsValue(loads(s))
        THEN <<loads(s)>>
        ELSE SelectSeq([i \in 1..Len(blocks) |-> loads(blocks[i])], IsValue)

\* C30 as stated: a line starting with the fence and containing "json" opens
\* a block (discarding any block still open), the next line starting with the
\* fence closes it, the result is the parsed values of the closed, non-empty,
\* valid-JSON blocks in order of appearance, and the whole text is taken as a
\* single block only when no fenced block was collected and the text starts
\* with "{" and parses as JSON.
C30_BlocksAsWritten ==
    pc = "blocks_parsed" => parsed = PyList(ClaimedResult(text, TRUE))

\* C30, amended: the same, where a line or the text "starts with" something
\* once the white space around it is stripped, and a line "contains json" in
\* any letter case.
C30_BlocksAfterStrip ==
    pc = "blocks_parsed" => parsed = PyList(ClaimedResult(text, FALSE))

\* two blocks came back in order, the first from an indented, upper-case fence
C30_Witness ==
    /\ pc = "blocks_parsed"
    /\ Len(parsed.q) = 2
    /\ parsed.q[1] = PyList(<<PyInt(7)>>)
    /\ parsed.q[2] = EmptyDict
    /\ Len(ClaimedResult(text, TRUE)) = 1

\* the assistant texts of a thread in order: for each assistant message that
\* has a text item, the first one, empty texts left out
AssistantTextsOf(data) ==
    SelectSeq([i \in 1..Len(data) |->
                  IF data[i].role = "assistant"
                     /\ \E k \in 1..Len(data[i].content) : data[i].content[k].type = "text"
                  THEN LET k == CHOOSE k \in 1..Len(data[i].content) :
                                   /\ data[i].content[k].type = "text"
                                   /\ \A j \in 1..(k - 1) : data[i].content[j].type # "text"
                       IN  data[i].content[k].value
                  ELSE ""],
              LAMBDA t : t # "")

\* C25: analyze_images ends only once the status is none of queued,
\* in_progress and cancelling; it returns a pair only when the run ended
\* "completed" and the first assistant text held at least two parseable JSON
\* blocks, the pair being the first two in order of appearance; it raises
\* RuntimeError for every other final status, when there is no assistant
\* text, and when the text holds fewer than two blocks.
C25_PairOnlyFromCompletedRun ==
    pc = "analyzed" =>
        /\ run \notin {"queued", "in_progress", "cancelling"}
        /\ analysis.kind \in {"return", "raise"}
        /\ analysis.kind = "return" <=>
              /\ run = "completed"
              /\ AssistantTextsOf(msgs) # <<>>
              /\ Len(_extract_json_blocks(Head(AssistantTextsOf(msgs)))) >= 2
        /\ analysis.kind = "return" =>
              analysis.value = <<_extract_json_blocks(Head(AssistantTextsOf(msgs)))[1],
                                 _extract_json_blocks(Head(AssistantTextsOf(msgs)))[2]>>

\* after polling twice, a pair came from the second message of the thread,
\* whose text has three fenced blocks, the first of them not JSON
C25_Witness ==
    /\ pc = "analyzed"
    /\ polls = 2
    /\ analysis.kind = "return"
    /\ analysis.value = <<PyList(<<PyInt(7)>>), EmptyDict>>
    /\ Len(msgs) >= 2
    /\ msgs[1].role = "user"

(* --------------------------- claims on the page ------------------------ *)

SaveWidgets == {"create_and_save", "save_to_collection"}

\* C27: while save_modal_ad is set a run of main renders the save sidebar
\* only and touches neither the navigation nor the bulk-save modal;
\* save_modal_ad is set by the Save button of an ad card only, and cleared
\* only by a save that succeeded or by Cancel; a save that was rejected as a
\* duplicate or failed with an error leaves it on the same ad.
C27_SaveModalStaysOpen ==
    [][runs' = runs + 1 =>
          /\ Truthy(save_modal_ad) =>
                /\ rendered' = "save_sidebar"
                /\ pending_save_ads' = pending_save_ads
                /\ save_modal_ad' \in {save_modal_ad, None}
          /\ ~Truthy(save_modal_ad) /\ Truthy(save_modal_ad') =>
                /\ event'.widget = "save_btn"
                /\ save_modal_ad' \in CurrentAds
          /\ Truthy(save_modal_ad) /\ save_modal_ad' = None =>
                \/ event'.widget = "cancel"
                \/ /\ event'.widget \in SaveWidgets
                   /\ event'.message = "Ad saved successfully!"
          /\ Truthy(save_modal_ad) /\ event'.widget \in SaveWidgets
             /\ event'.message # "Ad saved successfully!" =>
                save_modal_ad' = save_modal_ad]_vars

\* a save to an existing collection was rejected as a duplicate and the modal
\* is still open on the ad
C27_Witness ==
    /\ pc = "page"
    /\ Truthy(save_modal_ad)
    /\ rendered = "save_sidebar"
    /\ event.widget = "save_to_collection"
    /\ event.message = "Ad already exists in this collection"
    /\ store_ret.ad_data = save_modal_ad

====
